---- MODULE Spec2Model ----
(***************************************************************************)
(* Model of the fetch-and-resolve pipeline of src/backup/get_data.py:      *)
(*   - the listing loop of get_data_script (cursor pagination with retry), *)
(*   - fetch_image_urls (chunked bulk resolution of image hashes),         *)
(*   - fetch_video_urls_with_backoff (per-video retry with backoff).       *)
(* Each part has its own specification; the variables of the other parts   *)
(* stay at their idle values.  The remote endpoints are the environment:   *)
(* every reply they can give is a nondeterministic choice of the actions.  *)
(***************************************************************************)
EXTENDS Integers, Sequences, FiniteSets, TLC

VARIABLES
    \* ---- listing loop of get_data_script ----
    chain,        \* the server's pages: chain[k] is the data array of page k
    url,          \* cursor: the page to request next, NoUrl when absent
    page,         \* the page counter
    ads,          \* the accumulated record list
    listPc,       \* "loop", "exited" (line 328 reached) or "raised"
    listTries,    \* requests issued so far for the current page (saturating)
    listLastUrl,  \* the URL of the most recent request
    listLastOut,  \* the outcome of the most recent request
    listLastStatus, \* its HTTP status, 0 when no response arrived
    listRetried,  \* TRUE once some page request has been retried
    listSleep,    \* the sleep executed by the most recent step, in ms
    \* ---- fetch_image_urls ----
    hashList,     \* the argument hash_list
    batchSize,    \* the argument batch_size
    imgI,         \* the loop variable i (offset of the current chunk)
    hashUrlMap,   \* hash_url_map
    imgPc,        \* "idle", "start", "loop", "items", "returned"
    imgJ,         \* items of the current reply processed so far
    imgReqs,      \* the chunks requested so far, in order
    imgFailed,    \* indexes (in imgReqs) of the requests that gave no data
    imgLastOut,   \* the outcome of the most recent request
    imgLastItem,  \* the reply item processed by the most recent step
    imgAnswered,  \* hashes carried with a URL by the items processed so far
    imgHonest,    \* every item so far carried a hash of its own chunk
    imgPrevUrl,   \* the URL the last item found stored under its hash
    imgSlept,     \* the most recent iteration ended with time.sleep(0.2)
    \* ---- fetch_video_urls_with_backoff ----
    videoIds,     \* the argument video_ids
    vidIdx,       \* position in video_ids of the ID being resolved
    attempt,      \* the loop variable attempt
    videoUrlMap,  \* video_url_map
    vidPc,        \* "idle", "start", "loop", "returned", "raised"
    vidReqCount,  \* requests issued so far, per video ID
    vidDelays,    \* the delays slept so far in seconds, per video ID
    vidFate,      \* "pending", "resolved", "skipped", "abandoned" per ID
    vidOnly503,   \* every reply so far for the ID was HTTP 503, per ID
    vidLastOut,   \* the outcome of the most recent request
    vidLastStatus, \* its HTTP status, 0 when no response arrived
    vidLastBody,  \* what the body of an HTTP 400 reply held, "" otherwise
    \* ---- download_media ----
    dlFiles,      \* the media directory: "none", "partial" or "complete"
                  \* for every file path
    dlDir,        \* TRUE when the media directory exists
    dlCalls,      \* number of calls of download_media so far
    dlLast,       \* the most recent call: arguments, outcome, return value
    dlPc,         \* "idle", "ready" or "raised"
    \* ---- hierarchy builder of get_data_script ----
    hAds,         \* the list ads after the media stage
    hIdx,         \* index in hAds of the record the for loop takes next
    hierarchical_data, \* the dict of campaign nodes, in insertion order
    hSkipped,     \* records skipped for a missing campaign or adset id
    hPc,          \* "idle", "loop" or "built"
    \* ---- flattener of get_data_script ----
    flatPos,      \* position of the nested loops in the traversal
    records,      \* the list records
    csv,          \* the rows of data/meta_ads_data.csv
    flatPc,       \* "idle", "loop", "written" or "raised"
    \* ---- numeric coercion of one insights object ----
    numIns,       \* the insights object ins of the record
    numOut,       \* the numeric fields computed from it
    numPc,        \* "idle", "ready", "done" or "raised"
    \* ---- determine_format_category ----
    fmtCreative,  \* the argument ad_creative
    fmtOut,       \* the value returned
    fmtPc,        \* "idle", "ready" or "done"
    \* ---- the collector of get_data_script ----
    colAds,       \* the list ads after the creative fetch
    colIdx,       \* index in colAds of the record the for loop takes next
    hashes,       \* the set hashes
    video_ids,    \* the set video_ids
    colPc,        \* "idle", "loop" or "done"
    \* ---- a run of get_data_script, stage by stage ----
    runFile,      \* "backup" for src/backup/get_data.py, "main" for
                  \* src/get_data.py
    runCreds,     \* which of the two credentials the environment holds
    runPc,        \* the statement the run is at
    runPagesLeft, \* pages of the listing not yet fetched
    runAds,       \* the list ads
    runIdx,       \* index in runAds of the record the current loop takes
    runAttempt,   \* the loop variable attempt of the creative fetch
    runStages,    \* the stages entered so far, in order
    runRequested, \* TRUE when an HTTP request was issued
    runClient,    \* TRUE when the boto3 client was created
    runFiles,     \* the output files written
    runUploads,   \* the records for which an upload was attempted
    runListReqs,  \* the requests of the listing loop issued so far
    \* ---- the per-ad creative and insights fetches of get_data_script ----
    afKind,       \* "creative" or "insights": which of the two loops
    afHasId,      \* per record of ads, whether it has an id
    afIdx,        \* index in ads of the record the for loop takes next
    afAttempt,    \* the loop variable attempt
    afReqs,       \* requests issued so far, per record
    afSettled,    \* records for which a request returned without raising
    afEntry,      \* records with an entry in all_creatives / all_insights
    afField,      \* records whose key creative / insights was assigned
    afPc,         \* "idle", "loop", "done" or "raised"
    \* ---- generate_caption (src/ingest.py, src/data/ingest.py) ----
    capFile,      \* "ingest" for src/ingest.py, "data" for src/data/ingest.py
    capEnabled,   \* CAPTION_ENABLED
    capRef,       \* the image reference passed: "", a URL, a path
    capR,         \* the argument retries of the outermost call
    retries,      \* the argument retries of the innermost call
    capCalls,     \* calls of chat.completions.create made so far
    capSucceeded, \* TRUE when a call returned a caption
    capRet,       \* the value returned, "pending" before the return
    capPc,        \* "idle", "entry", "try", "returned" or "raised"
    \* ---- the embed-and-upsert loop of src/ingest.py ----
    documents,    \* len(documents): a document is its position in the list
    batI,         \* the loop variable i
    batBatches,   \* the batches taken so far: first and last position, and
                  \* whether the batch was upserted
    batUpserted,  \* the positions of the documents upserted
    batReported,  \* the number of vectors the last line reports, -1 before
    batPc,        \* "idle", "loop" or "done"
    \* ---- build_metadata_filters (src/src/context_rules.py) ----
    selected_filters, \* the argument: NoDict for None, else the value
                  \* under every key, Absent for a key the dict lacks
    filters,      \* the dict returned, in the same form
    filtPc,       \* "idle", "ready", "done" or "raised"
    \* ---- the password gate of src/app.py, one browser session ----
    appSecret,    \* st.secrets["APP_PASSWORD"], NoSecret when not configured
    password_correct, \* st.session_state["password_correct"]: "True",
                  \* "False", or NoKey when the key is not set
    password,     \* st.session_state["password"], NoKey when not set
    appPrompt,    \* the most recent script run rendered the password input
    appError,     \* the most recent script run rendered "Incorrect password"
    appMain,      \* the most recent script run called streamlitUi.main()
    appMainEver,  \* some script run called streamlitUi.main()
    appRight,     \* some entry was equal to the configured APP_PASSWORD
    appEntries,   \* the password entries made so far
    appRuns       \* the script runs so far

listVars == <<chain, url, page, ads, listPc, listTries, listLastUrl,
              listLastOut, listLastStatus, listRetried, listSleep>>

imgVars == <<hashList, batchSize, imgI, hashUrlMap, imgPc, imgJ, imgReqs,
             imgFailed, imgLastOut, imgLastItem, imgAnswered, imgHonest,
             imgPrevUrl, imgSlept>>

vidVars == <<videoIds, vidIdx, attempt, videoUrlMap, vidPc, vidReqCount,
             vidDelays, vidFate, vidOnly503, vidLastOut, vidLastStatus,
             vidLastBody>>

dlVars == <<dlFiles, dlDir, dlCalls, dlLast, dlPc>>

hierVars == <<hAds, hIdx, hierarchical_data, hSkipped, hPc>>

flatVars == <<flatPos, records, csv, flatPc>>

numVars == <<numIns, numOut, numPc>>

fmtVars == <<fmtCreative, fmtOut, fmtPc>>

colVars == <<colAds, colIdx, hashes, video_ids, colPc>>

runVars == <<runFile, runCreds, runPc, runPagesLeft, runAds, runIdx,
             runAttempt, runStages, runRequested, runClient, runFiles,
             runUploads, runListReqs>>

laterVars == <<fmtVars, colVars, runVars>>

afVars == <<afKind, afHasId, afIdx, afAttempt, afReqs, afSettled, afEntry,
            afField, afPc>>

capVars == <<capFile, capEnabled, capRef, capR, retries, capCalls,
             capSucceeded, capRet, capPc>>

batVars == <<documents, batI, batBatches, batUpserted, batReported, batPc>>

filtVars == <<selected_filters, filters, filtPc>>

authVars == <<appSecret, password_correct, password, appPrompt, appError,
              appMain, appMainEver, appRight, appEntries, appRuns>>

appVars == <<afVars, capVars, batVars, filtVars, authVars>>

vars == <<listVars, imgVars, vidVars, dlVars, hierVars, flatVars, numVars,
          laterVars, appVars>>

\* what the steps of one part leave alone
notListVars == <<imgVars, vidVars, dlVars, hierVars, flatVars,
    numVars, laterVars, appVars>>

notImgVars == <<listVars, vidVars, dlVars, hierVars, flatVars,
    numVars, laterVars, appVars>>

notVidVars == <<listVars, imgVars, dlVars, hierVars, flatVars,
    numVars, laterVars, appVars>>

notDlVars == <<listVars, imgVars, vidVars, hierVars, flatVars,
    numVars, laterVars, appVars>>

fetchVars == <<listVars, imgVars, vidVars, dlVars>>

buildVars == <<hierVars, flatVars, numVars>>

oldVars == <<fetchVars, buildVars, laterVars>>

notAfVars == <<oldVars, capVars, batVars, filtVars, authVars>>

notCapVars == <<oldVars, afVars, batVars, filtVars, authVars>>

notBatVars == <<oldVars, afVars, capVars, filtVars, authVars>>

notFiltVars == <<oldVars, afVars, capVars, batVars, authVars>>

notAuthVars == <<oldVars, afVars, capVars, batVars, filtVars>>

(***************************************************************************)
(* Bounds of the model.                                                    *)
(***************************************************************************)
MaxPages == 2       \* pages in the server's chain
MaxPerPage == 2     \* records in one page
MaxTries == 2       \* the retry counter of one page saturates here
MaxHashes == 3      \* hashes passed to fetch_image_urls
MaxBatch == 2       \* the batch sizes tried are 1..MaxBatch
MaxItems == 2       \* items in one reply of the bulk endpoint
MaxVideos == 2      \* video IDs passed to fetch_video_urls_with_backoff
MaxCalls == 3       \* calls of download_media
MaxAds == 3         \* records handed to the hierarchy builder
MaxColAds == 2      \* records handed to the collector
MaxRunPages == 2    \* listing pages of a run, one record each

(***************************************************************************)
(* Helpers.                                                                *)
(***************************************************************************)
SeqsUpTo(S, n) == UNION {[1..k -> S] : k \in 0..n}

Min(a, b) == IF a < b THEN a ELSE b

RECURSIVE Concat(_)
Concat(ss) == IF ss = <<>> THEN <<>> ELSE Head(ss) \o Concat(Tail(ss))

IsPrefix(s, t) == Len(s) <= Len(t) /\ SubSeq(t, 1, Len(s)) = s

Range(s) == {s[k] : k \in DOMAIN s}

DistinctSeqs(S, n) ==
    {s \in SeqsUpTo(S, n) : \A a, b \in DOMAIN s : a # b => s[a] # s[b]}

CeilDiv(n, c) == (n + c - 1) \div c

(***************************************************************************)
(* The listing loop (src/backup/get_data.py, lines 291-328).               *)
(***************************************************************************)
AdIds == {"ad1", "ad2"}

NoUrl == 0

\* raise_for_status raises HTTPError for these statuses
HttpErrorStatuses == {400, 401, 403, 404, 429, 500, 501, 502, 503, 504}

\* the statuses the listing loop retries
RetryStatuses == {500, 502, 503, 504}

RetrySleepMs == 1000

PageSleepMs == 100

\* data.get("paging", {}).get("next") of page k
NextLink(k) == IF k < Len(chain) THEN k + 1 ELSE NoUrl

ListIdle ==
    /\ chain = <<>>
    /\ url = NoUrl
    /\ page = 1
    /\ ads = <<>>
    /\ listPc = "idle"
    /\ listTries = 0
    /\ listLastUrl = NoUrl
    /\ listLastOut = "none"
    /\ listLastStatus = 0
    /\ listRetried = FALSE
    /\ listSleep = 0

ListInit ==
    /\ \E n \in 1..MaxPages : chain \in [1..n -> SeqsUpTo(AdIds, MaxPerPage)]
    /\ url = 1
    /\ page = 1
    /\ ads = <<>>
    /\ listPc = "loop"
    /\ listTries = 0
    /\ listLastUrl = NoUrl
    /\ listLastOut = "none"
    /\ listLastStatus = 0
    /\ listRetried = FALSE
    /\ listSleep = 0

\* while url: requests.get(url, ...)
ListRequest(out, status) ==
    /\ listPc = "loop"
    /\ url # NoUrl
    /\ listLastUrl' = url
    /\ listLastOut' = out
    /\ listLastStatus' = status
    /\ UNCHANGED chain
    /\ UNCHANGED notListVars

\* PageOk with "ads = page_ads" in place of ads.extend(page_ads)
PageOk_Assign ==
    /\ ListRequest("ok", 200)
    /\ ads' = chain[url]
    /\ url' = NextLink(url)
    /\ page' = page + 1
    /\ listSleep' = PageSleepMs
    /\ listTries' = 0
    /\ UNCHANGED listRetried
    /\ listPc' = IF NextLink(url) = NoUrl THEN "exited" ELSE "loop"

\* PageOk dropping the body and leaving url on the page just fetched
PageOk_SamePage ==
    /\ ListRequest("ok", 200)
    /\ UNCHANGED <<ads, url, page>>
    /\ listSleep' = PageSleepMs
    /\ listTries' = 0
    /\ UNCHANGED listRetried
    /\ listPc' = "loop"

\* the request succeeded and the body parsed: lines 321-326, followed by
\* the test of "while url" at line 301 (a page without 'data' is a page
\* with an empty data array, line 322)
PageOk ==
    /\ ListRequest("ok", 200)
    /\ ads' = ads \o chain[url]
    /\ url' = NextLink(url)
    /\ page' = page + 1
    /\ listSleep' = PageSleepMs
    /\ listTries' = 0
    /\ UNCHANGED listRetried
    /\ listPc' = IF NextLink(url) = NoUrl THEN "exited" ELSE "loop"

\* PageHttpError giving up on a page after three failed requests
PageHttpError_Capped ==
    \E status \in HttpErrorStatuses :
        /\ ListRequest("http", status)
        /\ UNCHANGED <<url, page, ads>>
        /\ IF status \in RetryStatuses /\ listTries < 2
           THEN /\ listSleep' = RetrySleepMs
                /\ listTries' = Min(listTries + 1, MaxTries)
                /\ listRetried' = TRUE
                /\ listPc' = "loop"
           ELSE /\ listSleep' = 0
                /\ UNCHANGED <<listTries, listRetried>>
                /\ listPc' = "exited"

\* PageHttpError retrying a rate-limit reply like a 5xx
PageHttpError_Retry429 ==
    \E status \in HttpErrorStatuses :
        /\ ListRequest("http", status)
        /\ UNCHANGED <<url, page, ads>>
        /\ IF status \in RetryStatuses \cup {429}
           THEN /\ listSleep' = RetrySleepMs
                /\ listTries' = Min(listTries + 1, MaxTries)
                /\ listRetried' = TRUE
                /\ listPc' = "loop"
           ELSE /\ listSleep' = 0
                /\ UNCHANGED <<listTries, listRetried>>
                /\ listPc' = "exited"

\* except requests.exceptions.HTTPError: lines 306-314
PageHttpError ==
    \E status \in HttpErrorStatuses :
        /\ ListRequest("http", status)
        /\ UNCHANGED <<url, page, ads>>
        /\ IF status \in RetryStatuses
           THEN /\ listSleep' = RetrySleepMs
                /\ listTries' = Min(listTries + 1, MaxTries)
                /\ listRetried' = TRUE
                /\ listPc' = "loop"
           ELSE /\ listSleep' = 0
                /\ UNCHANGED <<listTries, listRetried>>
                /\ listPc' = "exited"

\* PageRequestException ending pagination like the 4xx branch
PageRequestException_Break ==
    \E kind \in {"timeout", "connection"} :
        /\ ListRequest(kind, 0)
        /\ UNCHANGED <<url, page, ads, listTries, listRetried>>
        /\ listSleep' = 0
        /\ listPc' = "exited"

\* except requests.exceptions.RequestException: lines 315-319
PageRequestException ==
    \E kind \in {"timeout", "connection"} :
        /\ ListRequest(kind, 0)
        /\ UNCHANGED <<url, page, ads>>
        /\ listSleep' = RetrySleepMs
        /\ listTries' = Min(listTries + 1, MaxTries)
        /\ listRetried' = TRUE
        /\ listPc' = "loop"

\* res.json() at line 321 is outside the try block: a body that is not JSON
\* raises out of get_data_script
PageBadJson ==
    /\ ListRequest("nonjson", 200)
    /\ UNCHANGED <<url, page, ads, listTries, listRetried>>
    /\ listSleep' = 0
    /\ listPc' = "raised"

ListNext ==
    \/ PageOk
    \/ PageHttpError
    \/ PageRequestException
    \/ PageBadJson

\* a request whose outcome is neither a 5xx reply nor a network exception:
\* the body was read (lines 321-326), the else branch broke out of the loop
\* (lines 312-314) or res.json() raised (line 321)
PageDecided ==
    \/ PageOk
    \/ PageHttpError /\ listPc' = "exited"
    \/ PageBadJson

(***************************************************************************)
(* fetch_image_urls (src/backup/get_data.py, lines 69-114).                *)
(***************************************************************************)
Hashes == {"h1", "h2", "h3"}

Urls == {"u1", "u2"}

\* item.get('hash'), item.get('url'): "" stands for an absent or empty field
NoItem == [hash |-> "", url |-> ""]

Items == [hash : Hashes \cup {""}, url : Urls \cup {""}]

EmptyMap == [h \in {} |-> ""]

ImgIdle ==
    /\ hashList = <<>>
    /\ batchSize = 1
    /\ imgI = 0
    /\ hashUrlMap = EmptyMap
    /\ imgPc = "idle"
    /\ imgJ = 0
    /\ imgReqs = <<>>
    /\ imgFailed = {}
    /\ imgLastOut = "none"
    /\ imgLastItem = NoItem
    /\ imgAnswered = {}
    /\ imgHonest = TRUE
    /\ imgPrevUrl = ""
    /\ imgSlept = FALSE

ImgInit ==
    /\ hashList \in DistinctSeqs(Hashes, MaxHashes)
    /\ batchSize \in 1..MaxBatch
    /\ imgI = 0
    /\ hashUrlMap = EmptyMap
    /\ imgPc = "start"
    /\ imgJ = 0
    /\ imgReqs = <<>>
    /\ imgFailed = {}
    /\ imgLastOut = "none"
    /\ imgLastItem = NoItem
    /\ imgAnswered = {}
    /\ imgHonest = TRUE
    /\ imgPrevUrl = ""
    /\ imgSlept = FALSE

\* list(hash_list)[i:i + batch_size]
Chunk(i) == SubSeq(hashList, i + 1, Min(i + batchSize, Len(hashList)))

\* ImgAfter with the end of the range off by one
ImgAfter_OffByOne(i) ==
    IF i + batchSize <= Len(hashList) THEN "loop" ELSE "returned"

\* the for statement of line 76 after the iteration at offset i
ImgAfter(i) == IF i + batchSize < Len(hashList) THEN "loop" ELSE "returned"

\* lines 70-74
ImgStart ==
    /\ imgPc = "start"
    /\ imgPc' = IF hashList = <<>> THEN "returned" ELSE "loop"
    /\ UNCHANGED <<hashList, batchSize, imgI, hashUrlMap, imgJ, imgReqs,
                   imgFailed, imgLastOut, imgLastItem, imgAnswered,
                   imgHonest, imgPrevUrl, imgSlept>>
    /\ UNCHANGED notImgVars

\* lines 77-85: the bulk request for the chunk at offset i
ImgRequest(out) ==
    /\ imgPc = "loop"
    /\ imgReqs' = Append(imgReqs, Chunk(imgI))
    /\ imgLastOut' = out
    /\ imgLastItem' = NoItem
    /\ imgPrevUrl' = ""
    /\ UNCHANGED <<hashList, batchSize>>
    /\ UNCHANGED notImgVars

\* ImgRequestFail leaving the loop at the first failed chunk
ImgRequestFail_Break ==
    \E kind \in {"timeout", "http", "reqerr", "nonjson"} :
        /\ ImgRequest(kind)
        /\ imgFailed' = imgFailed \cup {Len(imgReqs) + 1}
        /\ imgSlept' = FALSE
        /\ imgI' = imgI + batchSize
        /\ imgPc' = "returned"
        /\ UNCHANGED <<hashUrlMap, imgJ, imgAnswered, imgHonest>>

\* lines 103-111: Timeout, HTTPError (any 4xx or 5xx status), another
\* RequestException, or a body that is not JSON
ImgRequestFail ==
    \E kind \in {"timeout", "http", "reqerr", "nonjson"} :
        /\ ImgRequest(kind)
        /\ imgFailed' = imgFailed \cup {Len(imgReqs) + 1}
        /\ imgSlept' = TRUE
        /\ imgI' = imgI + batchSize
        /\ imgPc' = ImgAfter(imgI)
        /\ UNCHANGED <<hashUrlMap, imgJ, imgAnswered, imgHonest>>

\* lines 88-90: the body carries 'error'; continue skips the sleep
ImgApiError ==
    /\ ImgRequest("apierror")
    /\ imgFailed' = imgFailed \cup {Len(imgReqs) + 1}
    /\ imgSlept' = FALSE
    /\ imgI' = imgI + batchSize
    /\ imgPc' = ImgAfter(imgI)
    /\ UNCHANGED <<hashUrlMap, imgJ, imgAnswered, imgHonest>>

\* lines 85-92: the body parsed and carries no 'error'
ImgReplyOk ==
    /\ ImgRequest("ok")
    /\ imgPc' = "items"
    /\ imgJ' = 0
    /\ UNCHANGED <<imgI, hashUrlMap, imgFailed, imgAnswered, imgHonest,
                   imgSlept>>

\* PutItem storing an item that has a hash but no URL
PutItem_NoUrlCheck(m, item) ==
    IF item.hash # ""
    THEN [h \in DOMAIN m \cup {item.hash} |->
             IF h = item.hash THEN item.url ELSE m[h]]
    ELSE m

\* PutItem skipping an item whose hash is already a key
PutItem_Skip(m, item) ==
    IF item.hash # "" /\ item.url # "" /\ item.hash \notin DOMAIN m
    THEN [h \in DOMAIN m \cup {item.hash} |->
             IF h = item.hash THEN item.url ELSE m[h]]
    ELSE m

\* lines 95-98 on the map m
PutItem(m, item) ==
    IF item.hash # "" /\ item.url # ""
    THEN [h \in DOMAIN m \cup {item.hash} |->
             IF h = item.hash THEN item.url ELSE m[h]]
    ELSE m

\* lines 93-99: one iteration of the loop over data.get('data', []); the
\* items of the reply are drawn one by one as the loop reaches them
ImgItem ==
    \E item \in Items :
        /\ imgPc = "items"
        /\ imgJ < MaxItems
        /\ imgJ' = imgJ + 1
        /\ imgLastItem' = item
        /\ hashUrlMap' = PutItem(hashUrlMap, item)
        /\ imgPrevUrl' = IF item.hash # "" /\ item.url # ""
                              /\ item.hash \in DOMAIN hashUrlMap
                         THEN hashUrlMap[item.hash]
                         ELSE ""
        /\ imgAnswered' = IF item.hash # "" /\ item.url # ""
                          THEN imgAnswered \cup {item.hash}
                          ELSE imgAnswered
        /\ imgHonest' = (imgHonest /\ item.hash \in Range(Chunk(imgI)) \cup {""})
        /\ UNCHANGED <<hashList, batchSize, imgI, imgPc, imgReqs, imgFailed,
                       imgLastOut, imgSlept>>
        /\ UNCHANGED notImgVars

\* lines 101 and 111: the reply has no more items
ImgReplyEnd ==
    /\ imgPc = "items"
    /\ imgSlept' = TRUE
    /\ imgI' = imgI + batchSize
    /\ imgPc' = ImgAfter(imgI)
    /\ imgLastItem' = NoItem
    /\ imgPrevUrl' = ""
    /\ UNCHANGED <<hashList, batchSize, hashUrlMap, imgJ, imgReqs, imgFailed,
                   imgLastOut, imgAnswered, imgHonest>>
    /\ UNCHANGED notImgVars

ImgNext ==
    \/ ImgStart
    \/ ImgRequestFail
    \/ ImgApiError
    \/ ImgReplyOk
    \/ ImgItem
    \/ ImgReplyEnd

\* the print of line 97 was executed by the most recent step
ImgWarned == imgPrevUrl # ""

(***************************************************************************)
(* fetch_video_urls_with_backoff (src/backup/get_data.py, lines 116-174).  *)
(***************************************************************************)
VideoIds == {"v1", "v2"}

Sources == {"s1"}

\* the defaults of the parameters max_retries and base_delay
MaxRetries == 3

BaseDelay == 1

\* the statuses that fetch_video_urls_with_backoff retries
VidRetryStatuses == {500, 502, 503, 504}

\* the bodies of an HTTP 400 reply that the except branch tells apart:
\* error code 10, another error code, a body that is not JSON, and a JSON
\* body that is not an object (a list, say), on which .get raises
\* AttributeError inside the handler
ErrorBodies == {"code10", "othercode", "nonjson", "notobject"}

RECURSIVE Pow2(_)
Pow2(n) == IF n = 0 THEN 1 ELSE 2 * Pow2(n - 1)

\* base_delay * (2 ** attempt)
Backoff(a) == BaseDelay * Pow2(a)

\* CanRetry comparing with max_retries in place of max_retries - 1
CanRetry_OffByOne == attempt < MaxRetries

\* attempt < max_retries - 1
CanRetry == attempt < MaxRetries - 1

\* attempt == max_retries - 1
LastAttempt == attempt = MaxRetries - 1

VidIdle ==
    /\ videoIds = <<>>
    /\ vidIdx = 1
    /\ attempt = 0
    /\ videoUrlMap = EmptyMap
    /\ vidPc = "idle"
    /\ vidReqCount = [v \in VideoIds |-> 0]
    /\ vidDelays = [v \in VideoIds |-> <<>>]
    /\ vidFate = [v \in VideoIds |-> "pending"]
    /\ vidOnly503 = [v \in VideoIds |-> TRUE]
    /\ vidLastOut = "none"
    /\ vidLastStatus = 0
    /\ vidLastBody = ""

VidInit ==
    /\ videoIds \in DistinctSeqs(VideoIds, MaxVideos)
    /\ vidIdx = 1
    /\ attempt = 0
    /\ videoUrlMap = EmptyMap
    /\ vidPc = "start"
    /\ vidReqCount = [v \in VideoIds |-> 0]
    /\ vidDelays = [v \in VideoIds |-> <<>>]
    /\ vidFate = [v \in VideoIds |-> "pending"]
    /\ vidOnly503 = [v \in VideoIds |-> TRUE]
    /\ vidLastOut = "none"
    /\ vidLastStatus = 0
    /\ vidLastBody = ""

\* the loop variable vid
Vid == videoIds[vidIdx]

\* lines 117-121
VidStart ==
    /\ vidPc = "start"
    /\ vidPc' = IF videoIds = <<>> THEN "returned" ELSE "loop"
    /\ UNCHANGED <<videoIds, vidIdx, attempt, videoUrlMap, vidReqCount,
                   vidDelays, vidFate, vidOnly503, vidLastOut,
                   vidLastStatus, vidLastBody>>
    /\ UNCHANGED notVidVars

\* line 129: the lookup request for the current video ID
VidRequest(out, status, body) ==
    /\ vidPc = "loop"
    /\ vidReqCount' = [vidReqCount EXCEPT ![Vid] = @ + 1]
    /\ vidOnly503' = [vidOnly503 EXCEPT ![Vid] = @ /\ status = 503]
    /\ vidLastOut' = out
    /\ vidLastStatus' = status
    /\ vidLastBody' = body
    /\ UNCHANGED videoIds
    /\ UNCHANGED notVidVars

\* break, or the end of range(max_retries): the for statement of line 123
\* moves to the next video ID, the current one ending with the given fate
VidBreak(fate) ==
    /\ vidFate' = [vidFate EXCEPT ![Vid] = fate]
    /\ vidIdx' = vidIdx + 1
    /\ attempt' = 0
    /\ vidPc' = IF vidIdx < Len(videoIds) THEN "loop" ELSE "returned"

\* the next iteration of the for statement of line 127
VidNextAttempt ==
    IF attempt + 1 < MaxRetries
    THEN /\ attempt' = attempt + 1
         /\ UNCHANGED <<vidIdx, vidFate, vidPc>>
    ELSE VidBreak("abandoned")

\* time.sleep(delay) followed by continue: lines 154-157 and 165-168
VidSleepAndContinue ==
    /\ vidDelays' = [vidDelays EXCEPT ![Vid] = Append(@, Backoff(attempt))]
    /\ VidNextAttempt

\* VidResolved without the break of line 135
VidResolved_NoBreak ==
    \E src \in Sources :
        /\ VidRequest("source", 200, "")
        /\ videoUrlMap' = [v \in DOMAIN videoUrlMap \cup {Vid} |->
                              IF v = Vid THEN src ELSE videoUrlMap[v]]
        /\ IF attempt + 1 < MaxRetries
           THEN /\ attempt' = attempt + 1
                /\ vidFate' = [vidFate EXCEPT ![Vid] = "resolved"]
                /\ UNCHANGED <<vidIdx, vidPc>>
           ELSE VidBreak("resolved")
        /\ UNCHANGED vidDelays

\* lines 132-135: the reply carries 'source'
VidResolved ==
    \E src \in Sources :
        /\ VidRequest("source", 200, "")
        /\ videoUrlMap' = [v \in DOMAIN videoUrlMap \cup {Vid} |->
                              IF v = Vid THEN src ELSE videoUrlMap[v]]
        /\ VidBreak("resolved")
        /\ UNCHANGED vidDelays

\* VidNoSource giving up at the first reply without 'source'
VidNoSource_GiveUp ==
    /\ VidRequest("nosource", 200, "")
    /\ VidBreak("abandoned")
    /\ UNCHANGED <<videoUrlMap, vidDelays>>

\* lines 136-140: the reply carries no 'source'
VidNoSource ==
    /\ VidRequest("nosource", 200, "")
    /\ IF LastAttempt THEN VidBreak("abandoned") ELSE VidNextAttempt
    /\ UNCHANGED <<videoUrlMap, vidDelays>>

\* VidHttpError with continue in place of the break of line 149
VidHttpError_Code10Continue ==
    \E status \in HttpErrorStatuses, body \in ErrorBodies :
        /\ status # 400 => body = "othercode"
        /\ VidRequest("http", status, IF status = 400 THEN body ELSE "")
        /\ UNCHANGED videoUrlMap
        /\ IF status = 400 /\ body = "notobject"
           THEN /\ vidPc' = "raised"
                /\ UNCHANGED <<vidIdx, attempt, vidFate, vidDelays>>
           ELSE IF status = 400 /\ body = "code10"
           THEN VidNextAttempt /\ UNCHANGED vidDelays
           ELSE IF status \in VidRetryStatuses /\ CanRetry
                THEN VidSleepAndContinue
                ELSE VidBreak("abandoned") /\ UNCHANGED vidDelays

\* lines 141-160: raise_for_status raised HTTPError
VidHttpError ==
    \E status \in HttpErrorStatuses, body \in ErrorBodies :
        /\ status # 400 => body = "othercode"
        /\ VidRequest("http", status, IF status = 400 THEN body ELSE "")
        /\ UNCHANGED videoUrlMap
        /\ IF status = 400 /\ body = "notobject"
           THEN /\ vidPc' = "raised"
                /\ UNCHANGED <<vidIdx, attempt, vidFate, vidDelays>>
           ELSE IF status = 400 /\ body = "code10"
           THEN VidBreak("skipped") /\ UNCHANGED vidDelays
           ELSE IF status \in VidRetryStatuses /\ CanRetry
                THEN VidSleepAndContinue
                ELSE VidBreak("abandoned") /\ UNCHANGED vidDelays

\* lines 162-171: another RequestException (timeout, connection error)
VidRequestException ==
    \E kind \in {"timeout", "connection"} :
        /\ VidRequest(kind, 0, "")
        /\ UNCHANGED videoUrlMap
        /\ IF CanRetry
           THEN VidSleepAndContinue
           ELSE VidBreak("abandoned") /\ UNCHANGED vidDelays

\* line 131: res.json() on a body that is not JSON.  With requests 2.27 or
\* later the error is a RequestException and takes lines 162-171; with an
\* earlier release it is a plain ValueError that no except clause catches
VidBadJson ==
    /\ VidRequest("nonjson", 200, "")
    /\ UNCHANGED videoUrlMap
    /\ \/ IF CanRetry
          THEN VidSleepAndContinue
          ELSE VidBreak("abandoned") /\ UNCHANGED vidDelays
       \/ /\ vidPc' = "raised"
          /\ UNCHANGED <<vidIdx, attempt, vidFate, vidDelays>>

VidNext ==
    \/ VidStart
    \/ VidResolved
    \/ VidNoSource
    \/ VidHttpError
    \/ VidRequestException
    \/ VidBadJson

(***************************************************************************)
(* download_media (src/backup/get_data.py, lines 176-207).                 *)
(***************************************************************************)
\* the URLs passed: the empty URL, a URL whose path ends in an extension,
\* one without extension that contains 'video', one without either
DlUrls == {[empty |-> TRUE, suffix |-> "", marker |-> FALSE],
           [empty |-> FALSE, suffix |-> ".png", marker |-> FALSE],
           [empty |-> FALSE, suffix |-> "", marker |-> TRUE],
           [empty |-> FALSE, suffix |-> "", marker |-> FALSE]}

DlIdentifiers == {"h1", "h2"}

DlAdIds == {"ad1"}

DlPrefixes == {"img_"}

DlArgs == [url : DlUrls, ad_id : DlAdIds, identifier : DlIdentifiers,
           prefix : DlPrefixes]

\* lines 183-188: the extension of the file name
Ext(u) == IF u.suffix # "" THEN u.suffix
          ELSE IF u.marker THEN ".mp4" ELSE ".jpg"

\* lines 190-191: os.path.join(media_dir, f"{prefix}{ad_id}_{identifier}{ext}")
FilePath(a) == <<a.prefix, a.ad_id, a.identifier, Ext(a.url)>>

DlPaths == {FilePath(a) : a \in DlArgs}

\* the return value None
NoPath == <<>>

NoCall == [args |-> [url |-> [empty |-> TRUE, suffix |-> "", marker |-> FALSE],
                     ad_id |-> "", identifier |-> "", prefix |-> ""],
           out |-> "none", requested |-> FALSE, ret |-> NoPath]

DlIdle ==
    /\ dlFiles = [p \in DlPaths |-> "none"]
    /\ dlDir = FALSE
    /\ dlCalls = 0
    /\ dlLast = NoCall
    /\ dlPc = "idle"

DlInit ==
    /\ dlFiles = [p \in DlPaths |-> "none"]
    /\ dlDir \in BOOLEAN
    /\ dlCalls = 0
    /\ dlLast = NoCall
    /\ dlPc = "ready"

\* Exists ignoring the file on disk
Exists_Never(p) == FALSE

\* line 193: os.path.exists(filepath)
Exists(p) == dlFiles[p] # "none"

\* a call of download_media with arguments a that ends with outcome out,
\* having issued the GET of line 198 or not, and returns ret
DlCall(a, out, requested, ret) ==
    /\ dlPc = "ready"
    /\ dlCalls < MaxCalls
    /\ dlCalls' = dlCalls + 1
    /\ dlLast' = [args |-> a, out |-> out, requested |-> requested,
                  ret |-> ret]
    /\ UNCHANGED notDlVars

\* lines 177-178
DlEmptyUrl ==
    \E a \in DlArgs :
        /\ a.url.empty
        /\ DlCall(a, "nourl", FALSE, NoPath)
        /\ UNCHANGED <<dlFiles, dlDir, dlPc>>

\* line 181: os.makedirs(media_dir, exist_ok=True) raises (OSError), caught
\* at line 205; it cannot fail for a directory that is already there
DlMkdirFails ==
    \E a \in DlArgs :
        /\ ~a.url.empty
        /\ ~dlDir
        /\ DlCall(a, "mkdir", FALSE, NoPath)
        /\ UNCHANGED <<dlFiles, dlDir, dlPc>>

\* lines 193-195: the file is already there
DlExists ==
    \E a \in DlArgs :
        /\ ~a.url.empty
        /\ Exists(FilePath(a))
        /\ DlCall(a, "exists", FALSE, FilePath(a))
        /\ dlDir' = TRUE
        /\ UNCHANGED <<dlFiles, dlPc>>

\* lines 198-199: requests.get raises (timeout, connection error) or
\* raise_for_status raises HTTPError, caught at line 205
DlRequestFails ==
    \E a \in DlArgs, kind \in {"timeout", "http"} :
        /\ ~a.url.empty
        /\ ~Exists(FilePath(a))
        /\ DlCall(a, kind, TRUE, NoPath)
        /\ dlDir' = TRUE
        /\ UNCHANGED <<dlFiles, dlPc>>

\* DlOpenFails with an except clause that catches request errors only
DlOpenFails_Uncaught ==
    \E a \in DlArgs :
        /\ ~a.url.empty
        /\ ~Exists(FilePath(a))
        /\ DlCall(a, "open", TRUE, NoPath)
        /\ dlDir' = TRUE
        /\ dlPc' = "raised"
        /\ UNCHANGED dlFiles

\* line 200: open(filepath, 'wb') raises (OSError), caught at line 205
DlOpenFails ==
    \E a \in DlArgs :
        /\ ~a.url.empty
        /\ ~Exists(FilePath(a))
        /\ DlCall(a, "open", TRUE, NoPath)
        /\ dlDir' = TRUE
        /\ UNCHANGED <<dlFiles, dlPc>>

\* lines 200-202: the file was opened and iter_content or write raises
\* before the payload is complete, caught at line 205
DlStreamFails ==
    \E a \in DlArgs :
        /\ ~a.url.empty
        /\ ~Exists(FilePath(a))
        /\ DlCall(a, "stream", TRUE, NoPath)
        /\ dlDir' = TRUE
        /\ dlFiles' = [dlFiles EXCEPT ![FilePath(a)] = "partial"]
        /\ UNCHANGED dlPc

\* lines 198-204: the download finished
DlOk ==
    \E a \in DlArgs :
        /\ ~a.url.empty
        /\ ~Exists(FilePath(a))
        /\ DlCall(a, "ok", TRUE, FilePath(a))
        /\ dlDir' = TRUE
        /\ dlFiles' = [dlFiles EXCEPT ![FilePath(a)] = "complete"]
        /\ UNCHANGED dlPc

DlNext ==
    \/ DlEmptyUrl
    \/ DlMkdirFails
    \/ DlExists
    \/ DlRequestFails
    \/ DlOpenFails
    \/ DlStreamFails
    \/ DlOk

(***************************************************************************)
(* The hierarchy builder of get_data_script (lines 544-585).  A Python     *)
(* dict keeps its keys in insertion order: a dict of nodes is the sequence *)
(* of its nodes, each carrying its key in the field id.                    *)
(***************************************************************************)
CampaignIds == {"A", "B"}

AdsetIds == {"X", "Y"}

\* the value of an id that ad.get(...).get("id") finds absent, None or empty
NoId == ""

\* the descriptive fields of the campaign and of the adset of a record
Descs == {"n1", "n2"}

\* an insights object whose numeric fields are all numbers
NumericIns == [spend |-> "num", impressions |-> "num", clicks |-> "num",
               ctr |-> "num", cpc |-> "num", cpm |-> "num",
               purchase_roas |-> "num", action_value |-> "num"]

\* the list of n fetched records with the fields f, the record at
\* position i having id i
AdList(n, f) ==
    [i \in 1..n |-> [id |-> i, camp |-> f[i].camp, adset |-> f[i].adset,
                     desc |-> f[i].desc, ins |-> f[i].ins]]

HierShapes == [camp : CampaignIds \cup {NoId}, adset : AdsetIds \cup {NoId},
               desc : Descs, ins : {NumericIns}]

\* the position of key k in the dict d, 0 when k is not in d
KeyIndex(d, k) ==
    IF \E i \in 1..Len(d) : d[i].id = k
    THEN CHOOSE i \in 1..Len(d) : d[i].id = k
    ELSE 0

\* MissingId skipping only a record that lacks both ids
MissingId_Both(ad) == ad.camp = NoId /\ ad.adset = NoId

\* line 551: not campaign_id or not adset_id
MissingId(ad) == ad.camp = NoId \/ ad.adset = NoId

\* WithCampaign rewriting the descriptive fields of a node that exists
WithCampaign_LastWriter(h, ad) ==
    IF KeyIndex(h, ad.camp) # 0
    THEN [h EXCEPT ![KeyIndex(h, ad.camp)].name = ad.desc]
    ELSE Append(h, [id |-> ad.camp, name |-> ad.desc, adsets |-> <<>>])

\* lines 555-565
WithCampaign(h, ad) ==
    IF KeyIndex(h, ad.camp) # 0
    THEN h
    ELSE Append(h, [id |-> ad.camp, name |-> ad.desc, adsets |-> <<>>])

\* lines 567-576
WithAdset(h, ad) ==
    LET c == KeyIndex(h, ad.camp)
    IN  IF KeyIndex(h[c].adsets, ad.adset) # 0
        THEN h
        ELSE [h EXCEPT ![c].adsets =
                  Append(@, [id |-> ad.adset, name |-> ad.desc, ads |-> <<>>])]

\* line 578
AppendAd(h, ad) ==
    LET c == KeyIndex(h, ad.camp)
        a == KeyIndex(h[c].adsets, ad.adset)
    IN  [h EXCEPT ![c].adsets[a].ads = Append(@, ad)]

\* lines 555-578: one record with both ids
Assign(h, ad) == AppendAd(WithAdset(WithCampaign(h, ad), ad), ad)

HierIdle ==
    /\ hAds = <<>>
    /\ hIdx = 1
    /\ hierarchical_data = <<>>
    /\ hSkipped = 0
    /\ hPc = "idle"

HierInit ==
    /\ \E n \in 0..MaxAds :
           \E f \in [1..n -> HierShapes] : hAds = AdList(n, f)
    /\ hIdx = 1
    /\ hierarchical_data = <<>>
    /\ hSkipped = 0
    /\ hPc = "loop"

\* lines 547-553
HierSkip ==
    /\ hPc = "loop"
    /\ hIdx <= Len(hAds)
    /\ MissingId(hAds[hIdx])
    /\ hSkipped' = hSkipped + 1
    /\ hIdx' = hIdx + 1
    /\ UNCHANGED <<hAds, hierarchical_data, hPc>>
    /\ UNCHANGED <<appVars, fetchVars, laterVars, flatVars, numVars>>

\* lines 547-578
HierAssign ==
    /\ hPc = "loop"
    /\ hIdx <= Len(hAds)
    /\ ~MissingId(hAds[hIdx])
    /\ hierarchical_data' = Assign(hierarchical_data, hAds[hIdx])
    /\ hIdx' = hIdx + 1
    /\ UNCHANGED <<hAds, hSkipped, hPc>>
    /\ UNCHANGED <<appVars, fetchVars, laterVars, flatVars, numVars>>

\* lines 580-585: the loop is over, data/dataset.json is written
HierDump ==
    /\ hPc = "loop"
    /\ hIdx > Len(hAds)
    /\ hPc' = "built"
    /\ UNCHANGED <<hAds, hIdx, hierarchical_data, hSkipped>>
    /\ UNCHANGED <<appVars, fetchVars, laterVars, flatVars, numVars>>

HierNext ==
    \/ HierSkip
    \/ HierAssign
    \/ HierDump

(***************************************************************************)
(* The numeric fields of one record in the flattener (lines 592-628).      *)
(* A field of the insights object is absent, null, a string that is not a  *)
(* number ("bad"), or a number or numeric string ("num").                  *)
(***************************************************************************)
ValueKinds == {"absent", "null", "bad", "num"}

\* purchase_roas is a number, or a list whose first item holds a value, or
\* anything else
RoasKinds == {"absent", "null", "bad", "num", "list_empty", "list_null",
              "list_bad", "list_num"}

\* the value of the one purchase action of the list actions; "noactions"
\* when the insights object has no key actions
ActionKinds == ValueKinds \cup {"noactions"}

InsObjects == [spend : ValueKinds, impressions : ValueKinds,
               clicks : ValueKinds, ctr : ValueKinds, cpc : ValueKinds,
               cpm : ValueKinds, purchase_roas : RoasKinds,
               action_value : ActionKinds]

Errors == {"ValueError", "TypeError"}

\* float(ins.get(f, 0)) and int(ins.get(f, 0)): the default stands in for
\* an absent key only; a string that is no number raises ValueError and
\* None raises TypeError
Convert(k) ==
    CASE k = "absent" -> "0"
      [] k = "num" -> "value"
      [] k = "bad" -> "ValueError"
      [] k = "null" -> "TypeError"

\* lines 598-612: try: float(...) except ValueError: 0.0
Guarded(k) == IF Convert(k) = "ValueError" THEN "0" ELSE Convert(k)

\* lines 614-624
Roas(k) ==
    IF k \in {"list_null", "list_bad", "list_num"}
    THEN IF k = "list_null" THEN "0"
         ELSE IF Convert(IF k = "list_num" THEN "num" ELSE "bad") \in Errors
              THEN "0"
              ELSE "value"
    ELSE IF k = "num" THEN "value" ELSE "0"

\* lines 626-627
Conversions(k) == IF k = "noactions" THEN "0" ELSE Convert(k)

\* lines 595-627: what each numeric field comes to, or the error its
\* statement raises
NumericFields(ins) ==
    [spend |-> Convert(ins.spend),
     impressions |-> Convert(ins.impressions),
     clicks |-> Convert(ins.clicks),
     ctr |-> Guarded(ins.ctr),
     cpc |-> Guarded(ins.cpc),
     cpm |-> Guarded(ins.cpm),
     roas |-> Roas(ins.purchase_roas),
     conversions |-> Conversions(ins.action_value)]

FieldNames == {"spend", "impressions", "clicks", "ctr", "cpc", "cpm", "roas",
               "conversions"}

\* some statement of lines 595-627 raises for this insights object
Raises(ins) == \E f \in FieldNames : NumericFields(ins)[f] \in Errors

NoFields == [f \in FieldNames |-> "none"]

NumIdle ==
    /\ numIns = NumericIns
    /\ numOut = NoFields
    /\ numPc = "idle"

NumInit ==
    /\ numIns \in InsObjects
    /\ numOut = NoFields
    /\ numPc = "ready"

\* lines 592-628 run to the end
CoerceDone ==
    /\ numPc = "ready"
    /\ ~Raises(numIns)
    /\ numOut' = NumericFields(numIns)
    /\ numPc' = "done"
    /\ UNCHANGED numIns
    /\ UNCHANGED <<appVars, fetchVars, laterVars, hierVars, flatVars>>

\* one of lines 595-627 raises: nothing catches it
CoerceRaises ==
    /\ numPc = "ready"
    /\ Raises(numIns)
    /\ numPc' = "raised"
    /\ UNCHANGED <<numIns, numOut>>
    /\ UNCHANGED <<appVars, fetchVars, laterVars, hierVars, flatVars>>

NumNext ==
    \/ CoerceDone
    \/ CoerceRaises

(***************************************************************************)
(* The flattener of get_data_script (lines 587-682).                       *)
(***************************************************************************)
\* an insights object whose spend is a string that is not a number
BadSpendIns == [NumericIns EXCEPT !.spend = "bad"]

FlatShapes == [camp : CampaignIds \cup {NoId}, adset : AdsetIds \cup {NoId},
               desc : {"n1"}, ins : {NumericIns, BadSpendIns}]

\* lines 589-591: the positions <<campaign, adset, record>> the three
\* nested loops visit, in the order they visit them
Traversal(h) ==
    Concat([c \in 1..Len(h) |->
        Concat([a \in 1..Len(h[c].adsets) |->
            [r \in 1..Len(h[c].adsets[a].ads) |-> <<c, a, r>>]])])

\* lines 647-676
Row(h, pos) ==
    LET campaign_data == h[pos[1]]
        adset_data == campaign_data.adsets[pos[2]]
        ad == adset_data.ads[pos[3]]
    IN  [ad_id |-> ad.id,
         campaign_id |-> campaign_data.id,
         campaign_name |-> campaign_data.name,
         adset_id |-> adset_data.id,
         adset_name |-> adset_data.name,
         numbers |-> NumericFields(ad.ins)]

\* the record under the loops
CurrentAd ==
    LET pos == Traversal(hierarchical_data)[flatPos]
    IN  hierarchical_data[pos[1]].adsets[pos[2]].ads[pos[3]]

FlatIdle ==
    /\ flatPos = 1
    /\ records = <<>>
    /\ csv = <<>>
    /\ flatPc = "idle"

FlatInit ==
    /\ \E n \in 0..MaxAds :
           \E f \in [1..n -> FlatShapes] : hAds = AdList(n, f)
    /\ hIdx = 1
    /\ hierarchical_data = <<>>
    /\ hSkipped = 0
    /\ hPc = "loop"
    /\ FlatIdle

\* lines 587-588, after dataset.json was written
FlatStart ==
    /\ hPc = "built"
    /\ flatPc = "idle"
    /\ flatPc' = "loop"
    /\ UNCHANGED <<flatPos, records, csv>>
    /\ UNCHANGED <<appVars, fetchVars, laterVars, hierVars, numVars>>

\* lines 591-677: one record becomes one row
FlatRow ==
    /\ flatPc = "loop"
    /\ flatPos <= Len(Traversal(hierarchical_data))
    /\ ~Raises(CurrentAd.ins)
    /\ records' = Append(records,
                         Row(hierarchical_data,
                             Traversal(hierarchical_data)[flatPos]))
    /\ flatPos' = flatPos + 1
    /\ UNCHANGED <<csv, flatPc>>
    /\ UNCHANGED <<appVars, fetchVars, laterVars, hierVars, numVars>>

\* lines 595-627 raise for the record: the run ends without the CSV
FlatRaise ==
    /\ flatPc = "loop"
    /\ flatPos <= Len(Traversal(hierarchical_data))
    /\ Raises(CurrentAd.ins)
    /\ flatPc' = "raised"
    /\ UNCHANGED <<flatPos, records, csv>>
    /\ UNCHANGED <<appVars, fetchVars, laterVars, hierVars, numVars>>

\* lines 679-682
FlatWrite ==
    /\ flatPc = "loop"
    /\ flatPos > Len(Traversal(hierarchical_data))
    /\ csv' = records
    /\ flatPc' = "written"
    /\ UNCHANGED <<flatPos, records>>
    /\ UNCHANGED <<appVars, fetchVars, laterVars, hierVars, numVars>>

FlatNext ==
    \/ HierSkip
    \/ HierAssign
    \/ HierDump
    \/ FlatStart
    \/ FlatRow
    \/ FlatRaise
    \/ FlatWrite

(***************************************************************************)
(* determine_format_category (src/backup/get_data.py, lines 57-67, and     *)
(* src/get_data.py, lines 25-35: the same statements).  A creative is the  *)
(* function that gives every field "absent", "empty" (present and falsy)   *)
(* or "set" (present and truthy).                                          *)
(***************************************************************************)
VideoFields == {"asset_feed_spec.videos", "object_story_spec.video_data.video_id"}

CarouselFields == {"object_story_spec.link_data.child_attachments"}

ImageFields == {"image_url", "asset_feed_spec.images", "image_hash",
                "thumbnail_url", "object_story_spec.photo_data"}

\* a field that is no media reference
OtherFields == {"title"}

CreativeFields ==
    VideoFields \cup CarouselFields \cup ImageFields \cup OtherFields

FieldKinds == {"absent", "empty", "set"}

Creatives == [CreativeFields -> FieldKinds]

\* the empty creative {}
EmptyCreative == [f \in CreativeFields |-> "absent"]

\* the truth value of safe_get(ad_creative, f): None for a missing key
Truthy(c, f) == c[f] = "set"

Categories == {"Video/Reel", "Carousel", "Static Image", "Unknown"}

\* determine_format_category testing the carousel field first
determine_format_category_CarouselFirst(c) ==
    IF c = EmptyCreative THEN "Unknown"
    ELSE IF Truthy(c, "object_story_spec.link_data.child_attachments")
         THEN "Carousel"
    ELSE IF Truthy(c, "asset_feed_spec.videos")
            \/ Truthy(c, "object_story_spec.video_data.video_id")
         THEN "Video/Reel"
    ELSE IF Truthy(c, "image_url") \/ Truthy(c, "asset_feed_spec.images")
            \/ Truthy(c, "image_hash") \/ Truthy(c, "thumbnail_url")
            \/ Truthy(c, "object_story_spec.photo_data")
         THEN "Static Image"
    ELSE "Unknown"

\* lines 59-67
determine_format_category(c) ==
    IF c = EmptyCreative THEN "Unknown"
    ELSE IF Truthy(c, "asset_feed_spec.videos")
            \/ Truthy(c, "object_story_spec.video_data.video_id")
         THEN "Video/Reel"
    ELSE IF Truthy(c, "object_story_spec.link_data.child_attachments")
         THEN "Carousel"
    ELSE IF Truthy(c, "image_url") \/ Truthy(c, "asset_feed_spec.images")
            \/ Truthy(c, "image_hash") \/ Truthy(c, "thumbnail_url")
            \/ Truthy(c, "object_story_spec.photo_data")
         THEN "Static Image"
    ELSE "Unknown"

FmtIdle ==
    /\ fmtCreative = EmptyCreative
    /\ fmtOut = "none"
    /\ fmtPc = "idle"

FmtInit ==
    /\ fmtCreative \in Creatives
    /\ fmtOut = "none"
    /\ fmtPc = "ready"

\* one call of determine_format_category
Classify ==
    /\ fmtPc = "ready"
    /\ fmtOut' = determine_format_category(fmtCreative)
    /\ fmtPc' = "done"
    /\ UNCHANGED fmtCreative
    /\ UNCHANGED <<appVars, fetchVars, buildVars, colVars, runVars>>

FmtNext == Classify

(***************************************************************************)
(* The collector of get_data_script (lines 423-455).                       *)
(***************************************************************************)
\* a reference that is absent, None or the empty string
NoRef == ""

\* what the collector reads in one record: creative is FALSE for a record
\* without the key creative; photo is "nokey" when photo_data is absent,
\* empty or has no key image_hash, else the value under that key
ColShapes ==
    {c \in [creative : BOOLEAN,
            image_hash : {NoRef, "h1"},
            children : {<<>>, <<"h1">>},
            photo : {"nokey", NoRef, "h2"},
            videos : {<<>>, <<"v1">>},
            story_video : {NoRef, "v1"}] :
        ~c.creative => /\ c.image_hash = NoRef /\ c.children = <<>>
                       /\ c.photo = "nokey" /\ c.videos = <<>>
                       /\ c.story_video = NoRef}

\* lines 441-444: photo_data and 'image_hash' in photo_data
PhotoHashes(ad) == IF ad.photo # "nokey" THEN {ad.photo} ELSE {}

\* lines 429-444
AdHashes(ad) ==
    (IF ad.image_hash # NoRef THEN {ad.image_hash} ELSE {})
        \cup {h \in Range(ad.children) : h # NoRef}
        \cup PhotoHashes(ad)

\* lines 446-453
AdVideoIds(ad) ==
    {v \in Range(ad.videos) : v # NoRef}
        \cup (IF ad.story_video # NoRef THEN {ad.story_video} ELSE {})

ColIdle ==
    /\ colAds = <<>>
    /\ colIdx = 1
    /\ hashes = {}
    /\ video_ids = {}
    /\ colPc = "idle"

ColInit ==
    /\ \E n \in 0..MaxColAds : colAds \in [1..n -> ColShapes]
    /\ colIdx = 1
    /\ hashes = {}
    /\ video_ids = {}
    /\ colPc = "loop"

\* lines 426-453: one iteration of the loop over ads
Collect ==
    /\ colPc = "loop"
    /\ colIdx <= Len(colAds)
    /\ hashes' = hashes \cup AdHashes(colAds[colIdx])
    /\ video_ids' = video_ids \cup AdVideoIds(colAds[colIdx])
    /\ colIdx' = colIdx + 1
    /\ UNCHANGED <<colAds, colPc>>
    /\ UNCHANGED <<appVars, fetchVars, buildVars, fmtVars, runVars>>

\* line 455: the loop is over
CollectEnd ==
    /\ colPc = "loop"
    /\ colIdx > Len(colAds)
    /\ colPc' = "done"
    /\ UNCHANGED <<colAds, colIdx, hashes, video_ids>>
    /\ UNCHANGED <<appVars, fetchVars, buildVars, fmtVars, runVars>>

ColNext ==
    \/ Collect
    \/ CollectEnd

(***************************************************************************)
(* A run of get_data_script, stage by stage: src/backup/get_data.py        *)
(* (module level, lines 25-38, and lines 280-682) and src/get_data.py      *)
(* (lines 101-253).  The loops that other parts of this module follow      *)
(* request by request are one step each here.                              *)
(***************************************************************************)
RunFiles == {"backup", "main"}

\* the creatives the API returns, by what they refer to; "plain" refers to
\* no media
CreativeKinds == {"video", "carousel", "image", "plain"}

\* the record without the key creative
NoCreative == "none"

CreativeOf(kind) ==
    CASE kind = "video" ->
             [EmptyCreative EXCEPT
                  !["object_story_spec.video_data.video_id"] = "set",
                  !["thumbnail_url"] = "set"]
      [] kind = "carousel" ->
             [EmptyCreative EXCEPT
                  !["object_story_spec.link_data.child_attachments"] = "set",
                  !["image_hash"] = "set"]
      [] kind = "image" -> [EmptyCreative EXCEPT !["image_hash"] = "set"]
      [] kind = "plain" -> [EmptyCreative EXCEPT !["title"] = "set"]
      [] kind = NoCreative -> EmptyCreative

\* lines 474-480: the creative of the record after the media stage
FinalCreative(ad) ==
    IF ad.media = "none"
    THEN CreativeOf(ad.creative)
    ELSE [CreativeOf(ad.creative) EXCEPT !["image_url"] = "set"]

\* CredsOk letting the run go on with one credential
CredsOk_Any(c) == c.token \/ c.account

\* all([ACCESS_TOKEN, AD_ACCOUNT_ID])
CredsOk(c) == c.token /\ c.account

\* the stage log after a statement of stage st ran
Entered(log, st) ==
    IF log # <<>> /\ log[Len(log)] = st THEN log ELSE Append(log, st)

RunIdle ==
    /\ runFile = "backup"
    /\ runCreds = [token |-> TRUE, account |-> TRUE]
    /\ runPc = "idle"
    /\ runPagesLeft = 0
    /\ runAds = <<>>
    /\ runIdx = 1
    /\ runAttempt = 0
    /\ runStages = <<>>
    /\ runRequested = FALSE
    /\ runClient = FALSE
    /\ runFiles = {}
    /\ runUploads = {}
    /\ runListReqs = 0

RunInit ==
    /\ runFile \in RunFiles
    /\ runCreds \in [token : BOOLEAN, account : BOOLEAN]
    /\ runPc = "startup"
    /\ runPagesLeft \in 1..MaxRunPages
    /\ runAds = <<>>
    /\ runIdx = 1
    /\ runAttempt = 0
    /\ runStages = <<>>
    /\ runRequested = FALSE
    /\ runClient = FALSE
    /\ runFiles = {}
    /\ runUploads = {}
    /\ runListReqs = 0

\* what no step of a run changes
RunFrame ==
    /\ UNCHANGED <<runFile, runCreds>>
    /\ UNCHANGED <<appVars, fetchVars, buildVars, fmtVars, colVars>>

\* backup lines 25-38 and 281-283, main lines 102-111
RunStartup ==
    /\ runPc = "startup"
    /\ IF CredsOk(runCreds)
       THEN /\ runPc' = "listing"
            /\ runClient' = (runFile = "backup")
       ELSE /\ runPc' = "stopped"
            /\ UNCHANGED runClient
    /\ UNCHANGED <<runPagesLeft, runAds, runIdx, runAttempt, runStages,
                   runRequested, runFiles, runUploads>>
    /\ UNCHANGED runListReqs
    /\ RunFrame

\* the record a listing page of src/backup/get_data.py brings (its FIELDS
\* ask for no creative), and one of src/get_data.py
NewAd(c) == [creative |-> c, format_category |-> "unset", media |-> "none"]

\* RunPage collecting the references of the page before the next page
RunPage_CollectPerPage ==
    \E c \in CreativeKinds \cup {NoCreative} :
        /\ runPc = "listing"
        /\ runPagesLeft > 0
        /\ runFile = "backup" => c = NoCreative
        /\ runRequested' = TRUE
        /\ runStages' = Entered(Entered(runStages, "fetching"), "collecting")
        /\ runAds' = Append(runAds, NewAd(c))
        /\ runPagesLeft' = runPagesLeft - 1
        /\ runPc' = IF runFile = "main" THEN "collect_page" ELSE "listing"
        /\ UNCHANGED <<runIdx, runAttempt, runClient, runFiles, runUploads>>
        /\ runListReqs' = runListReqs + 1
        /\ RunFrame

\* backup lines 301-326, main lines 137-143: a page arrives
RunPage ==
    \E c \in CreativeKinds \cup {NoCreative} :
        /\ runPc = "listing"
        /\ runPagesLeft > 0
        /\ runFile = "backup" => c = NoCreative
        /\ runRequested' = TRUE
        /\ runStages' = Entered(runStages, "fetching")
        /\ runAds' = Append(runAds, NewAd(c))
        /\ runPagesLeft' = runPagesLeft - 1
        /\ runPc' = IF runFile = "main" THEN "collect_page" ELSE "listing"
        /\ UNCHANGED <<runIdx, runAttempt, runClient, runFiles, runUploads>>
        /\ runListReqs' = runListReqs + 1
        /\ RunFrame

\* the requests of the listing loop the model follows for one run
MaxRunReqs == 4

\* the outcomes of a page request that bring no page
PageFailures == {"http4xx", "http5xx", "network", "badjson"}

\* RunPageFails with src/get_data.py handling a failed page as
\* src/backup/get_data.py does
RunPageFails_Handled ==
    \E kind \in PageFailures :
        /\ runPc = "listing"
        /\ runPagesLeft > 0
        /\ runListReqs < MaxRunReqs
        /\ runRequested' = TRUE
        /\ runListReqs' = runListReqs + 1
        /\ runStages' = Entered(runStages, "fetching")
        /\ runPc' = CASE kind \in {"http5xx", "network"} -> "listing"
                      [] kind = "http4xx" ->
                             IF runFile = "backup" THEN "upload"
                             ELSE "resolve"
                      [] OTHER -> "raised"
        /\ runIdx' = 1
        /\ UNCHANGED <<runPagesLeft, runAds, runAttempt, runClient, runFiles,
                       runUploads>>
        /\ RunFrame

\* a page request brings no page.  src/backup/get_data.py (lines 303-321)
\* retries the page after an HTTP 5xx status or a network exception,
\* breaks out of the loop after another HTTP error status and raises at
\* line 321 on a body that is not JSON.  src/get_data.py (lines 138-140)
\* has no try: requests.get, raise_for_status or res.json() raises out of
\* get_data_script
RunPageFails ==
    \E kind \in PageFailures :
        /\ runPc = "listing"
        /\ runPagesLeft > 0
        /\ runListReqs < MaxRunReqs
        /\ runRequested' = TRUE
        /\ runListReqs' = runListReqs + 1
        /\ runStages' = Entered(runStages, "fetching")
        /\ runPc' = CASE runFile = "main" -> "raised"
                      [] kind \in {"http5xx", "network"} -> "listing"
                      [] kind = "http4xx" -> "upload"
                      [] OTHER -> "raised"
        /\ runIdx' = 1
        /\ UNCHANGED <<runPagesLeft, runAds, runAttempt, runClient, runFiles,
                       runUploads>>
        /\ RunFrame

\* the page had no next link
RunListEnd ==
    /\ runPc = "listing"
    /\ runPagesLeft = 0
    /\ runPc' = IF runFile = "backup" THEN "upload" ELSE "resolve"
    /\ runIdx' = 1
    /\ UNCHANGED <<runPagesLeft, runAds, runAttempt, runStages, runRequested,
                   runClient, runFiles, runUploads>>
    /\ UNCHANGED runListReqs
    /\ RunFrame

\* main lines 145-163: the records of the page are classified and their
\* references collected
RunMainCollect ==
    /\ runPc = "collect_page"
    /\ runAds' = [runAds EXCEPT ![Len(runAds)].format_category =
                      determine_format_category(
                          CreativeOf(runAds[Len(runAds)].creative))]
    /\ runStages' = Entered(runStages, "collecting")
    /\ runPc' = "listing"
    /\ UNCHANGED <<runPagesLeft, runIdx, runAttempt, runRequested, runClient,
                   runFiles, runUploads>>
    /\ UNCHANGED runListReqs
    /\ RunFrame

\* backup line 335 and lines 244-269: one iteration of the loop of
\* generate_s3_urls_for_ads
RunUpload ==
    /\ runPc = "upload"
    /\ runIdx <= Len(runAds)
    /\ runUploads' = IF runAds[runIdx].media = "local"
                     THEN runUploads \cup {runIdx}
                     ELSE runUploads
    /\ runIdx' = runIdx + 1
    /\ UNCHANGED <<runPc, runPagesLeft, runAds, runAttempt, runStages,
                   runRequested, runClient, runFiles>>
    /\ UNCHANGED runListReqs
    /\ RunFrame

\* backup lines 271-275
RunUploadEnd ==
    /\ runPc = "upload"
    /\ runIdx > Len(runAds)
    /\ runFiles' = runFiles \cup {"dataset_s3_url.json"}
    /\ runPc' = "creative"
    /\ runIdx' = 1
    /\ runAttempt' = 0
    /\ UNCHANGED <<runPagesLeft, runAds, runStages, runRequested, runClient,
                   runUploads>>
    /\ UNCHANGED runListReqs
    /\ RunFrame

\* backup line 359: max_retries of the creative fetch
CreativeRetries == 3

\* backup lines 337-380: one request of the creative fetch of the record at
\* runIdx; the reply holds a creative, or none, or the request raises a
\* RequestException
RunCreativeTry ==
    \E out \in CreativeKinds \cup {"nocreative", "error"} :
        /\ runPc = "creative"
        /\ runIdx <= Len(runAds)
        /\ runRequested' = TRUE
        /\ runStages' = Entered(runStages, "fetching")
        /\ runAds' = IF out \in CreativeKinds
                     THEN [runAds EXCEPT ![runIdx] =
                              [@ EXCEPT !.creative = out,
                                        !.format_category =
                                            determine_format_category(
                                                CreativeOf(out))]]
                     ELSE runAds
        /\ IF out = "error" /\ runAttempt < CreativeRetries - 1
           THEN /\ runAttempt' = runAttempt + 1
                /\ UNCHANGED runIdx
           ELSE /\ runAttempt' = 0
                /\ runIdx' = runIdx + 1
        /\ UNCHANGED <<runPc, runPagesLeft, runClient, runFiles, runUploads>>
        /\ UNCHANGED runListReqs
        /\ RunFrame

\* backup line 382
RunCreativeEnd ==
    /\ runPc = "creative"
    /\ runIdx > Len(runAds)
    /\ runPc' = "insights"
    /\ runIdx' = 1
    /\ UNCHANGED <<runPagesLeft, runAds, runAttempt, runStages, runRequested,
                   runClient, runFiles, runUploads>>
    /\ UNCHANGED runListReqs
    /\ RunFrame

\* backup lines 384-421: the insights fetch of every record
RunInsights ==
    /\ runPc = "insights"
    /\ runStages' = Entered(runStages, "fetching")
    /\ runRequested' = (runRequested \/ runAds # <<>>)
    /\ runPc' = "collect"
    /\ UNCHANGED <<runPagesLeft, runAds, runIdx, runAttempt, runClient,
                   runFiles, runUploads>>
    /\ UNCHANGED runListReqs
    /\ RunFrame

\* backup lines 423-455
RunCollect ==
    /\ runPc = "collect"
    /\ runStages' = Entered(runStages, "collecting")
    /\ runPc' = "resolve"
    /\ UNCHANGED <<runPagesLeft, runAds, runIdx, runAttempt, runRequested,
                   runClient, runFiles, runUploads>>
    /\ UNCHANGED runListReqs
    /\ RunFrame

\* backup lines 457-459 (both resolvers), main line 173 (fetch_image_urls)
RunResolve ==
    /\ runPc = "resolve"
    /\ runStages' = Entered(runStages, "resolving")
    /\ runPc' = IF runFile = "backup" THEN "inject" ELSE "download_images"
    /\ runIdx' = 1
    /\ UNCHANGED <<runPagesLeft, runAds, runAttempt, runRequested, runClient,
                   runFiles, runUploads>>
    /\ UNCHANGED runListReqs
    /\ RunFrame

\* main line 174: download_images
RunDownloadImages ==
    /\ runPc = "download_images"
    /\ runStages' = Entered(runStages, "materializing")
    /\ runFiles' = runFiles \cup {"media"}
    /\ runPc' = "resolve_videos"
    /\ UNCHANGED <<runPagesLeft, runAds, runIdx, runAttempt, runRequested,
                   runClient, runUploads>>
    /\ UNCHANGED runListReqs
    /\ RunFrame

\* main lines 176-198: fetch_video_urls, then the URLs are attached
RunResolveVideos ==
    /\ runPc = "resolve_videos"
    /\ runStages' = Entered(runStages, "resolving")
    /\ runPc' = "dump"
    /\ UNCHANGED <<runPagesLeft, runAds, runIdx, runAttempt, runRequested,
                   runClient, runFiles, runUploads>>
    /\ UNCHANGED runListReqs
    /\ RunFrame

\* backup lines 467-539: one iteration; the image of a record that refers
\* to one stays unresolved ("none"), gets its URL ("url") or its URL and
\* its local path ("local")
RunInject ==
    \E m \in {"none", "url", "local"} :
        /\ runPc = "inject"
        /\ runIdx <= Len(runAds)
        /\ runAds[runIdx].creative \notin {"image", "carousel"} => m = "none"
        /\ runAds' = [runAds EXCEPT ![runIdx].media = m]
        /\ runFiles' = IF m = "local" THEN runFiles \cup {"media"}
                       ELSE runFiles
        /\ runStages' = Entered(runStages, "materializing")
        /\ runIdx' = runIdx + 1
        /\ UNCHANGED <<runPc, runPagesLeft, runAttempt, runRequested,
                       runClient, runUploads>>
        /\ UNCHANGED runListReqs
        /\ RunFrame

\* backup lines 541-542
RunInjectEnd ==
    /\ runPc = "inject"
    /\ runIdx > Len(runAds)
    /\ runPc' = "hierarchy"
    /\ UNCHANGED <<runPagesLeft, runAds, runIdx, runAttempt, runStages,
                   runRequested, runClient, runFiles, runUploads>>
    /\ UNCHANGED runListReqs
    /\ RunFrame

\* backup lines 544-585
RunHierarchy ==
    /\ runPc = "hierarchy"
    /\ runStages' = Entered(runStages, "hierarchy")
    /\ runFiles' = runFiles \cup {"dataset.json"}
    /\ runPc' = "flatten"
    /\ UNCHANGED <<runPagesLeft, runAds, runIdx, runAttempt, runRequested,
                   runClient, runUploads>>
    /\ UNCHANGED runListReqs
    /\ RunFrame

\* main lines 203-205
RunDump ==
    /\ runPc = "dump"
    /\ runFiles' = runFiles \cup {"dataset.json"}
    /\ runPc' = "flatten"
    /\ UNCHANGED <<runPagesLeft, runAds, runIdx, runAttempt, runStages,
                   runRequested, runClient, runUploads>>
    /\ UNCHANGED runListReqs
    /\ RunFrame

\* backup lines 587-682, main lines 211-251: the CSV is written, or a
\* conversion of a numeric field of some record raises
RunFlatten ==
    \E ok \in BOOLEAN :
        /\ runPc = "flatten"
        /\ runAds = <<>> => ok
        /\ runStages' = Entered(runStages, "flattening")
        /\ runFiles' = IF ok THEN runFiles \cup {"meta_ads_data.csv"}
                       ELSE runFiles
        /\ runPc' = IF ok THEN "done" ELSE "raised"
        /\ UNCHANGED <<runPagesLeft, runAds, runIdx, runAttempt,
                       runRequested, runClient, runUploads>>
        /\ UNCHANGED runListReqs
        /\ RunFrame

RunNext ==
    \/ RunStartup
    \/ RunPage
    \/ RunPageFails
    \/ RunListEnd
    \/ RunMainCollect
    \/ RunUpload
    \/ RunUploadEnd
    \/ RunCreativeTry
    \/ RunCreativeEnd
    \/ RunInsights
    \/ RunCollect
    \/ RunResolve
    \/ RunDownloadImages
    \/ RunResolveVideos
    \/ RunInject
    \/ RunInjectEnd
    \/ RunHierarchy
    \/ RunDump
    \/ RunFlatten

(***************************************************************************)
(* The per-ad fetches of get_data_script (src/backup/get_data.py): the     *)
(* creative fetch (lines 337-382) and the insights fetch (lines 388-421).  *)
(* Both are a for loop over ads around "for attempt in range(max_retries)".*)
(***************************************************************************)
MaxFetchAds == 2

AfKinds == {"creative", "insights"}

\* line 400: max_retries of the insights fetch
InsightsRetries == 3

\* max_retries of the loop
AfRetries == IF afKind = "creative" THEN CreativeRetries ELSE InsightsRetries

AfIdle ==
    /\ afKind = "creative"
    /\ afHasId = <<>>
    /\ afIdx = 1
    /\ afAttempt = 0
    /\ afReqs = <<>>
    /\ afSettled = {}
    /\ afEntry = {}
    /\ afField = {}
    /\ afPc = "idle"

\* all_creatives = {} (line 331), all_insights = {} (line 385)
AfInit ==
    /\ afKind \in AfKinds
    /\ \E n \in 1..MaxFetchAds :
           /\ afHasId \in [1..n -> BOOLEAN]
           /\ afReqs = [i \in 1..n |-> 0]
    /\ afIdx = 1
    /\ afAttempt = 0
    /\ afSettled = {}
    /\ afEntry = {}
    /\ afField = {}
    /\ afPc = "loop"

AfFrame == UNCHANGED <<afKind, afHasId, notAfVars>>

\* the for loop takes the next record: time.sleep(0.2), lines 380 and 419
AfNextAd ==
    /\ afIdx' = afIdx + 1
    /\ afAttempt' = 0

\* lines 338-340, 389-391: if not ad_id: continue
AfNoId ==
    /\ afPc = "loop"
    /\ afIdx <= Len(afHasId)
    /\ ~afHasId[afIdx]
    /\ AfNextAd
    /\ UNCHANGED <<afReqs, afSettled, afEntry, afField, afPc>>
    /\ AfFrame

\* requests.get at line 362 or 403
AfRequest ==
    /\ afPc = "loop"
    /\ afIdx <= Len(afHasId)
    /\ afHasId[afIdx]
    /\ afReqs' = [afReqs EXCEPT ![afIdx] = @ + 1]

\* the reply holds a creative (lines 366-371) or a data row (lines 406-409);
\* break at line 375 or 414
AfReplyData ==
    /\ AfRequest
    /\ afSettled' = afSettled \cup {afIdx}
    /\ afEntry' = afEntry \cup {afIdx}
    /\ afField' = afField \cup {afIdx}
    /\ AfNextAd
    /\ UNCHANGED afPc
    /\ AfFrame

\* the reply holds no creative (lines 372-374: all_creatives[ad_id] = {})
\* or no data row (lines 410-413: all_insights[ad_id] = {} and
\* ad['insights'] = {'data': [{}]}); break
AfReplyNoData ==
    /\ AfRequest
    /\ afSettled' = afSettled \cup {afIdx}
    /\ afEntry' = afEntry \cup {afIdx}
    /\ afField' = IF afKind = "insights" THEN afField \cup {afIdx}
                  ELSE afField
    /\ AfNextAd
    /\ UNCHANGED afPc
    /\ AfFrame

\* except requests.exceptions.RequestException: continue; after the last
\* attempt the for loop over attempt is exhausted
AfFailedAttempt ==
    /\ UNCHANGED <<afSettled, afEntry, afField, afPc>>
    /\ IF afAttempt < AfRetries - 1
       THEN afAttempt' = afAttempt + 1 /\ UNCHANGED afIdx
       ELSE AfNextAd

\* AfRequestException with "attempt <= max_retries" as the bound
AfRequestException_OneMore ==
    /\ AfRequest
    /\ UNCHANGED <<afSettled, afEntry, afField, afPc>>
    /\ IF afAttempt < AfRetries
       THEN afAttempt' = afAttempt + 1 /\ UNCHANGED afIdx
       ELSE AfNextAd
    /\ AfFrame

\* the request times out, fails to connect, or raise_for_status raises for
\* an HTTP error status: lines 376-378, 415-417
AfRequestException ==
    /\ AfRequest
    /\ AfFailedAttempt
    /\ AfFrame

\* res.json() on a body that is not JSON (lines 364, 405).  With requests
\* 2.27 or later the error is a RequestException and is handled like one;
\* with an earlier release it is a plain ValueError that leaves
\* get_data_script
AfBadJson ==
    /\ AfRequest
    /\ \/ AfFailedAttempt
       \/ /\ afPc' = "raised"
          /\ UNCHANGED <<afIdx, afAttempt, afSettled, afEntry, afField>>
    /\ AfFrame

\* line 382 or 421 is reached
AfEnd ==
    /\ afPc = "loop"
    /\ afIdx > Len(afHasId)
    /\ afPc' = "done"
    /\ UNCHANGED <<afIdx, afAttempt, afReqs, afSettled, afEntry, afField>>
    /\ AfFrame

AfNext ==
    \/ AfNoId
    \/ AfReplyData
    \/ AfReplyNoData
    \/ AfRequestException
    \/ AfBadJson
    \/ AfEnd

(***************************************************************************)
(* generate_caption: src/ingest.py (lines 114-159, with                    *)
(* build_image_content, lines 101-112) and src/data/ingest.py (lines       *)
(* 161-191).  The recursive call of the handler is the next round of the   *)
(* same steps with retries - 1.                                            *)
(***************************************************************************)
MaxCapRetries == 2

CapFiles == {"ingest", "data"}

\* the image reference: empty, a URL, the path of a file, a path that
\* names no file
CapRefs == {"", "http", "file", "nofile"}

\* the value returned for a failure and for a caption
NoCaption == ""

Caption == "caption"

CapIdle ==
    /\ capFile = "ingest"
    /\ capEnabled = TRUE
    /\ capRef = ""
    /\ capR = 0
    /\ retries = 0
    /\ capCalls = 0
    /\ capSucceeded = FALSE
    /\ capRet = "pending"
    /\ capPc = "idle"

CapInit ==
    /\ capFile \in CapFiles
    /\ capEnabled \in BOOLEAN
    /\ capRef \in CapRefs
    /\ capR \in 0..MaxCapRetries
    /\ retries = capR
    /\ capCalls = 0
    /\ capSucceeded = FALSE
    /\ capRet = "pending"
    /\ capPc = "entry"

CapFrame == UNCHANGED <<capFile, capEnabled, capRef, capR, notCapVars>>

\* if not CAPTION_ENABLED or not image_path_or_url: return ""
CapGuard ==
    /\ capPc = "entry"
    /\ IF ~capEnabled \/ capRef = ""
       THEN capRet' = NoCaption /\ capPc' = "returned"
       ELSE capPc' = "try" /\ UNCHANGED capRet
    /\ UNCHANGED <<retries, capCalls, capSucceeded>>
    /\ CapFrame

\* CapHandler testing "retries >= 0"
CapHandler_OneMore ==
    IF retries >= 0
    THEN /\ retries' = retries - 1
         /\ UNCHANGED <<capRet, capPc>>
    ELSE /\ capRet' = NoCaption
         /\ capPc' = "returned"
         /\ UNCHANGED retries

\* except Exception: src/ingest.py lines 153-159, src/data/ingest.py lines
\* 186-191; the recursive call passes its own guard again
CapHandler ==
    IF retries > 0
    THEN /\ retries' = retries - 1
         /\ UNCHANGED <<capRet, capPc>>
    ELSE /\ capRet' = NoCaption
         /\ capPc' = "returned"
         /\ UNCHANGED retries

\* src/ingest.py line 119: build_image_content raises FileNotFoundError for
\* a reference that is neither a URL nor the path of a file, before any
\* call is made
CapBuildFails ==
    /\ capPc = "try"
    /\ capFile = "ingest"
    /\ capRef = "nofile"
    /\ CapHandler
    /\ UNCHANGED <<capCalls, capSucceeded>>
    /\ CapFrame

\* chat.completions.create is called
CapCall ==
    /\ capPc = "try"
    /\ capFile = "ingest" => capRef # "nofile"
    /\ capCalls' = capCalls + 1

\* the call returns a message with a text: return ....content.strip()
CapCallOk ==
    /\ CapCall
    /\ capSucceeded' = TRUE
    /\ capRet' = Caption
    /\ capPc' = "returned"
    /\ UNCHANGED retries
    /\ CapFrame

\* the call raises, or returns a message without content, on which strip
\* raises AttributeError
CapCallFails ==
    /\ CapCall
    /\ CapHandler
    /\ UNCHANGED capSucceeded
    /\ CapFrame

CapNext ==
    \/ CapGuard
    \/ CapBuildFails
    \/ CapCallOk
    \/ CapCallFails

(***************************************************************************)
(* The embed-and-upsert loop of src/ingest.py (lines 248-262).             *)
(***************************************************************************)
MaxDocs == 101

\* line 33
BATCH_SIZE == 50

BatIdle ==
    /\ documents = 0
    /\ batI = 0
    /\ batBatches = <<>>
    /\ batUpserted = {}
    /\ batReported = -1
    /\ batPc = "idle"

\* range(0, len(documents), BATCH_SIZE) starts at 0
BatInit ==
    /\ documents \in 0..MaxDocs
    /\ batI = 0
    /\ batBatches = <<>>
    /\ batUpserted = {}
    /\ batReported = -1
    /\ batPc = "loop"

BatFrame == UNCHANGED <<documents, notBatVars>>

\* documents[i:i + BATCH_SIZE], as positions counted from 1
Batch(i) == [first |-> i + 1, last |-> Min(i + BATCH_SIZE, documents)]

\* the for loop takes the next i and the slice of line 249
BatTake(ok) ==
    /\ batPc = "loop"
    /\ batI < documents
    /\ batBatches' = Append(batBatches,
                            [first |-> Batch(batI).first,
                             last |-> Batch(batI).last,
                             ok |-> ok])

\* lines 254-257: the batch is embedded and upserted
BatOk ==
    /\ BatTake(TRUE)
    /\ batUpserted' = batUpserted \cup (Batch(batI).first..Batch(batI).last)
    /\ batI' = batI + BATCH_SIZE
    /\ UNCHANGED <<batReported, batPc>>
    /\ BatFrame

\* BatFails leaving the loop at the first failed batch
BatFails_Break ==
    \E stage \in {"embed", "upsert"} :
        /\ BatTake(FALSE)
        /\ batPc' = "done"
        /\ batReported' = documents
        /\ UNCHANGED <<batUpserted, batI>>
        /\ BatFrame

\* lines 258-259: embed_documents or index.upsert raises; the handler
\* prints and the for loop goes on
BatFails ==
    \E stage \in {"embed", "upsert"} :
        /\ BatTake(FALSE)
        /\ batI' = batI + BATCH_SIZE
        /\ UNCHANGED <<batUpserted, batReported, batPc>>
        /\ BatFrame

\* lines 261-262: the range is exhausted; len(documents) is reported
BatEnd ==
    /\ batPc = "loop"
    /\ batI >= documents
    /\ batReported' = documents
    /\ batPc' = "done"
    /\ UNCHANGED <<batI, batBatches, batUpserted>>
    /\ BatFrame

BatNext ==
    \/ BatOk
    \/ BatFails
    \/ BatEnd

(***************************************************************************)
(* build_metadata_filters (src/src/context_rules.py, lines 221-245), with  *)
(* the dict render_filters returns (src/src/streamlitUi.py, lines 80-112)  *)
(* and the call of VectorDB.query (src/src/vectorstore.py, line 101).      *)
(***************************************************************************)
\* the keys of the dict render_filters returns
RenderKeys == {"campaign_objective", "target_market", "industry", "country",
               "ads_language"}

\* the keys of mapping, lines 232-239
MappingKeys == {"Industry", "Campaign Objective", "Target Market",
                "Ads Language", "Psychographics", "Platform"}

mapping(key) ==
    CASE key = "Industry" -> "industry"
      [] key = "Campaign Objective" -> "campaign_objective"
      [] key = "Target Market" -> "target_market"
      [] key = "Ads Language" -> "ads_language"
      [] key = "Psychographics" -> "psychographics"
      [] key = "Platform" -> "platform"

\* the filter fields: the values of mapping
FilterFields == {mapping(key) : key \in MappingKeys}

FiltKeys == RenderKeys \cup MappingKeys

Absent == "absent"

\* None, the default of the parameter filters of VectorDB.query: no dict,
\* written as a value under no key
NoDict == [key \in FiltKeys |-> "None"]

\* a selection: nothing selected (the empty string) or an option
Selections == {"", "option"}

\* the dicts render_filters returns: a value under each of its five keys
RenderedDicts ==
    {d \in [FiltKeys -> Selections \cup {Absent}] :
        \A key \in FiltKeys : d[key] = Absent <=> key \notin RenderKeys}

\* dicts keyed by the labels of the dropdowns
LabelDicts ==
    {d \in [FiltKeys -> Selections \cup {Absent}] :
        \A key \in RenderKeys : d[key] = Absent}

EmptyFilters == [f \in FilterFields |-> Absent]

FiltIdle ==
    /\ selected_filters = NoDict
    /\ filters = EmptyFilters
    /\ filtPc = "idle"

FiltInit ==
    /\ selected_filters \in RenderedDicts \cup LabelDicts \cup {NoDict}
    /\ filters = EmptyFilters
    /\ filtPc = "ready"

FiltFrame == UNCHANGED <<selected_filters, notFiltVars>>

\* lines 241-245: filters[mapping[key]] = val for every item whose key is
\* in mapping and whose value is truthy
FiltBuild ==
    /\ filtPc = "ready"
    /\ selected_filters # NoDict
    /\ filters' =
           [f \in FilterFields |->
               IF \E key \in MappingKeys :
                      /\ mapping(key) = f
                      /\ selected_filters[key] \notin {Absent, ""}
               THEN selected_filters[
                        CHOOSE key \in MappingKeys : mapping(key) = f]
               ELSE Absent]
    /\ filtPc' = "done"
    /\ FiltFrame

\* line 242 on None: selected_filters.items() raises AttributeError, which
\* leaves VectorDB.query at line 101, outside its try blocks
FiltNone ==
    /\ filtPc = "ready"
    /\ selected_filters = NoDict
    /\ filtPc' = "raised"
    /\ UNCHANGED filters
    /\ FiltFrame

FiltNext ==
    \/ FiltBuild
    \/ FiltNone

(***************************************************************************)
(* The password gate of src/app.py (lines 19-49) in one browser session.   *)
(* Streamlit runs the script from top to bottom at the start of the        *)
(* session and after every interaction; a change of the password input     *)
(* first calls password_entered, then runs the script.                     *)
(***************************************************************************)
MaxRuns == 5

\* what the user can type into the password input
Entries == {"", "open", "guess", "sesame"}

NoSecret == "no secret"

\* the passwords the deployment can configure
Secrets == {"open", "", NoSecret}

NoKey == "no key"

AuthIdle ==
    /\ appSecret = "open"
    /\ password_correct = NoKey
    /\ password = NoKey
    /\ appPrompt = FALSE
    /\ appError = FALSE
    /\ appMain = FALSE
    /\ appMainEver = FALSE
    /\ appRight = FALSE
    /\ appEntries = 0
    /\ appRuns = -1

\* a new session: session state is empty and no script run has happened
AuthInit ==
    /\ appSecret \in Secrets
    /\ password_correct = NoKey
    /\ password = NoKey
    /\ appPrompt = FALSE
    /\ appError = FALSE
    /\ appMain = FALSE
    /\ appMainEver = FALSE
    /\ appRight = FALSE
    /\ appEntries = 0
    /\ appRuns = 0

AuthFrame == UNCHANGED <<appSecret, notAuthVars>>

\* CheckPassed testing that the key is set
CheckPassed_KeyPresent(flag) == flag # NoKey

\* line 21: st.session_state.get("password_correct", False)
CheckPassed(flag) == flag = "True"

\* lines 19-49: one run of the script on session state (flag, pw).  With
\* the flag set check_password returns True at line 22 and main() is
\* called; otherwise the input is rendered under the key "password" (which
\* gets the empty string when the key is not set), the error is rendered
\* when the flag is set and False, and main() is not called
ScriptRun(flag, pw) ==
    /\ appRuns' = appRuns + 1
    /\ password_correct' = flag
    /\ IF CheckPassed(flag)
       THEN /\ appMain' = TRUE
            /\ appMainEver' = TRUE
            /\ appPrompt' = FALSE
            /\ appError' = FALSE
            /\ password' = pw
       ELSE /\ appMain' = FALSE
            /\ UNCHANGED appMainEver
            /\ appPrompt' = TRUE
            /\ appError' = (flag = "False")
            /\ password' = IF pw = NoKey THEN "" ELSE pw

\* the first run of the session, or a rerun not caused by the password
\* input
AppRerun ==
    /\ appRuns >= 0
    /\ appRuns < MaxRuns
    /\ ScriptRun(password_correct, password)
    /\ UNCHANGED <<appRight, appEntries>>
    /\ AuthFrame

\* password_entered keeping the entry in session state
PasswordAfter_Kept(v) == v

\* lines 25-29: session_state["password"] after password_entered ran on
\* the entry v
PasswordAfter(v) == IF v = appSecret THEN NoKey ELSE v

\* lines 25-29: session_state["password_correct"] after password_entered
FlagAfter(v) == IF v = appSecret THEN "True" ELSE "False"

\* the user changes the password input to v: password_entered runs with
\* session_state["password"] = v, then the script runs
AppEntry ==
    \E v \in Entries :
        /\ appRuns < MaxRuns
        /\ appPrompt
        /\ v # password
        /\ appSecret # NoSecret
        /\ appEntries' = appEntries + 1
        /\ appRight' = (appRight \/ v = appSecret)
        /\ ScriptRun(FlagAfter(v), PasswordAfter(v))
        /\ AuthFrame

\* the same with no APP_PASSWORD in the secrets: line 25 raises KeyError in
\* the callback, which sets nothing; the script may or may not run after it
AppEntryNoSecret ==
    \E v \in Entries :
        /\ appRuns < MaxRuns
        /\ appEntries < MaxRuns
        /\ appPrompt
        /\ v # password
        /\ appSecret = NoSecret
        /\ appEntries' = appEntries + 1
        /\ UNCHANGED appRight
        /\ \/ ScriptRun(password_correct, v)
           \/ /\ password' = v
              /\ UNCHANGED <<password_correct, appPrompt, appError, appMain,
                             appMainEver, appRuns>>
        /\ AuthFrame

AuthNext ==
    \/ AppRerun
    \/ AppEntry
    \/ AppEntryNoSecret

\* the parts of the module at rest
FetchIdle == ListIdle /\ ImgIdle /\ VidIdle /\ DlIdle

BuildIdle == HierIdle /\ FlatIdle /\ NumIdle

LaterIdle == FmtIdle /\ ColIdle /\ RunIdle

AppIdle == AfIdle /\ CapIdle /\ BatIdle /\ FiltIdle /\ AuthIdle

(***************************************************************************)
(* Specifications: one per part of the pipeline.                           *)
(***************************************************************************)
InitListing == AppIdle /\ LaterIdle /\ ListInit /\ ImgIdle /\ VidIdle /\ DlIdle /\
    HierIdle /\ FlatIdle /\ NumIdle

SpecListing == InitListing /\ [][ListNext]_vars

\* the listing loop when no page fails for ever: the chain is finite
\* (ListInit) and a request keeps being answered until one outcome is
\* neither a 5xx reply nor a network exception
SpecListingFair == InitListing /\ [][ListNext]_vars /\ WF_vars(PageDecided)

InitImage == AppIdle /\ LaterIdle /\ ListIdle /\ ImgInit /\ VidIdle /\ DlIdle /\
    HierIdle /\ FlatIdle /\ NumIdle

SpecImage == InitImage /\ [][ImgNext]_vars

InitVideo == AppIdle /\ LaterIdle /\ ListIdle /\ ImgIdle /\ VidInit /\ DlIdle /\
    HierIdle /\ FlatIdle /\ NumIdle

SpecVideo == InitVideo /\ [][VidNext]_vars

InitDownload == AppIdle /\ LaterIdle /\ ListIdle /\ ImgIdle /\ VidIdle /\ DlInit /\
    HierIdle /\ FlatIdle /\ NumIdle

SpecDownload == InitDownload /\ [][DlNext]_vars

InitHierarchy ==
    AppIdle /\ LaterIdle /\ ListIdle /\ ImgIdle /\ VidIdle /\ DlIdle /\ HierInit /\ FlatIdle /\ NumIdle

SpecHierarchy == InitHierarchy /\ [][HierNext]_vars

InitFlatten ==
    AppIdle /\ LaterIdle /\ ListIdle /\ ImgIdle /\ VidIdle /\ DlIdle /\ FlatInit /\ NumIdle

SpecFlatten == InitFlatten /\ [][FlatNext]_vars

InitCoerce ==
    AppIdle /\ LaterIdle /\ ListIdle /\ ImgIdle /\ VidIdle /\ DlIdle /\ HierIdle /\ FlatIdle /\ NumInit

SpecCoerce == InitCoerce /\ [][NumNext]_vars

InitFormat == AppIdle /\ FetchIdle /\ BuildIdle /\ FmtInit /\ ColIdle /\ RunIdle

SpecFormat == InitFormat /\ [][FmtNext]_vars

InitCollect == AppIdle /\ FetchIdle /\ BuildIdle /\ FmtIdle /\ ColInit /\ RunIdle

SpecCollect == InitCollect /\ [][ColNext]_vars

InitRun == AppIdle /\ FetchIdle /\ BuildIdle /\ FmtIdle /\ ColIdle /\ RunInit

SpecRun == InitRun /\ [][RunNext]_vars

InitAdFetch ==
    FetchIdle /\ BuildIdle /\ LaterIdle /\ AfInit /\ CapIdle /\ BatIdle /\ FiltIdle /\ AuthIdle

SpecAdFetch == InitAdFetch /\ [][AfNext]_vars

InitCaption ==
    FetchIdle /\ BuildIdle /\ LaterIdle /\ CapInit /\ AfIdle /\ BatIdle /\ FiltIdle /\ AuthIdle

SpecCaption == InitCaption /\ [][CapNext]_vars

InitBatches ==
    FetchIdle /\ BuildIdle /\ LaterIdle /\ BatInit /\ AfIdle /\ CapIdle /\ FiltIdle /\ AuthIdle

SpecBatches == InitBatches /\ [][BatNext]_vars

InitFilters ==
    FetchIdle /\ BuildIdle /\ LaterIdle /\ FiltInit /\ AfIdle /\ CapIdle /\ BatIdle /\ AuthIdle

SpecFilters == InitFilters /\ [][FiltNext]_vars

InitAuth ==
    FetchIdle /\ BuildIdle /\ LaterIdle /\ AuthInit /\ AfIdle /\ CapIdle /\ BatIdle /\ FiltIdle

SpecAuth == InitAuth /\ [][AuthNext]_vars

(***************************************************************************)
(* Claims about the listing loop.                                          *)
(***************************************************************************)
NetworkFailures == {"timeout", "connection"}

\* C1: a page request answered with HTTP 500, 502, 503 or 504 leaves the
\* cursor URL, the page counter and the record list unchanged and keeps the
\* loop running whatever the number of earlier retries of the page; the
\* request that follows it is for the same URL.
C1_Retry5xxSamePage ==
    [][ /\ (listLastOut' = "http" /\ listLastStatus' \in RetryStatuses)
              => /\ url' = url
                 /\ page' = page
                 /\ ads' = ads
                 /\ listPc' = "loop"
        /\ (listLastOut = "http" /\ listLastStatus \in RetryStatuses)
              => listLastUrl' = listLastUrl ]_vars

\* the second page, with records already appended, answered 5xx after the
\* retry counter has saturated, and the loop still running
C1_Witness ==
    /\ listLastOut = "http"
    /\ listLastStatus \in RetryStatuses
    /\ listTries = MaxTries
    /\ listLastUrl = 2
    /\ url = 2
    /\ ads # <<>>
    /\ listPc = "loop"

\* C2 as stated: a page request that fails with HTTP 4xx or with any other
\* request failure (timeout, connection error) ends pagination and keeps
\* the records appended so far.
C2_Original ==
    [][ (\/ (listLastOut' = "http" /\ listLastStatus' \in 400..499)
         \/ listLastOut' \in NetworkFailures)
            => (listPc' = "exited" /\ ads' = ads) ]_vars

\* C2 amended: a page request that fails with an HTTP error status other
\* than 500, 502, 503, 504 (every 4xx among them) ends pagination: the loop
\* exits without raising, the records of the earlier pages are kept
\* unchanged, and no request follows; a failure that is not an HTTP status
\* (timeout, connection error) does not end pagination.
C2_HttpErrorEndsPagination ==
    [][ /\ (listLastOut' = "http" /\ listLastStatus' \notin RetryStatuses)
              => (listPc' = "exited" /\ ads' = ads /\ url' = url)
        /\ listPc = "exited" => UNCHANGED listVars
        /\ listLastOut' \in NetworkFailures => listPc' = "loop" ]_vars

\* pagination ended by a 4xx on the second page with the first page's
\* records kept
C2_Witness ==
    /\ listLastOut = "http"
    /\ listLastStatus \in 400..499
    /\ listPc = "exited"
    /\ listLastUrl = 2
    /\ Len(chain) = 2
    /\ ads = chain[1]
    /\ ads # <<>>

\* C3: a page request that raises a network-level exception is retried for
\* the same page after the fixed delay, whatever the number of earlier
\* retries, and never ends pagination.
C3_NetworkRetry ==
    [][ /\ listLastOut' \in NetworkFailures
              => /\ url' = url
                 /\ page' = page
                 /\ ads' = ads
                 /\ listPc' = "loop"
                 /\ listSleep' = RetrySleepMs
        /\ listLastOut \in NetworkFailures
              => listLastUrl' = listLastUrl ]_vars

\* a timeout on the second page after the retry counter has saturated
C3_Witness ==
    /\ listLastOut = "timeout"
    /\ listTries = MaxTries
    /\ listLastUrl = 2
    /\ url = 2
    /\ ads # <<>>
    /\ listPc = "loop"

\* C4: when the loop ends because a page has no next link, the record list
\* is the concatenation in cursor order of the data arrays of all pages,
\* and no step removes or reorders a record already appended.
C4_AppendOnlyConcat ==
    /\ []((listPc = "exited" /\ listLastOut = "ok") => ads = Concat(chain))
    /\ [][IsPrefix(ads, ads')]_vars

\* a two-page chain with different non-empty pages, fully listed after at
\* least one retry
C4_Witness ==
    /\ listPc = "exited"
    /\ listLastOut = "ok"
    /\ listRetried
    /\ Len(chain) = 2
    /\ chain[1] = <<"ad1", "ad2">>
    /\ chain[2] = <<"ad2", "ad1">>
    /\ ads = <<"ad1", "ad2", "ad2", "ad1">>


(***************************************************************************)
(* Claims about fetch_image_urls.                                          *)
(***************************************************************************)
\* C5: called with N unique hashes and batch size C, fetch_image_urls has
\* issued exactly ceil(N/C) requests when it returns, whatever the replies
\* were: every request carries at most C hashes and every input hash is
\* carried by exactly one request, so no chunk is requested twice.
C5_ChunkCount ==
    imgPc = "returned" =>
        /\ Len(imgReqs) = CeilDiv(Len(hashList), batchSize)
        /\ \A k \in DOMAIN imgReqs : Len(imgReqs[k]) <= batchSize
        /\ \A h \in Range(hashList) :
               Cardinality({k \in DOMAIN imgReqs : h \in Range(imgReqs[k])}) = 1

\* three hashes in batches of two, the first chunk failed, two requests
C5_Witness ==
    /\ imgPc = "returned"
    /\ Len(hashList) = 3
    /\ batchSize = 2
    /\ imgFailed = {1}
    /\ Len(imgReqs) = 2

\* C6: when some chunk failed and the replies of the other chunks answer
\* hashes of their own chunk, the returned map holds every hash answered
\* with a URL and no hash of a failed chunk, and the chunks after the
\* failed one have been requested.
C6_PartialFailure ==
    (imgPc = "returned" /\ imgFailed # {} /\ imgHonest) =>
        /\ imgAnswered \subseteq DOMAIN hashUrlMap
        /\ \A k \in imgFailed : Range(imgReqs[k]) \cap DOMAIN hashUrlMap = {}
        /\ Len(imgReqs) = CeilDiv(Len(hashList), batchSize)

\* three chunks, the middle one failed, the other two answered
C6_Witness ==
    /\ imgPc = "returned"
    /\ imgHonest
    /\ Len(hashList) = 3
    /\ batchSize = 1
    /\ imgFailed = {2}
    /\ DOMAIN hashUrlMap = {hashList[1], hashList[3]}

\* C7 as stated: the key set of the returned map is a subset of the input
\* hash set, whatever the replies were.
C7_Original ==
    imgPc = "returned" => DOMAIN hashUrlMap \subseteq Range(hashList)

\* C7 amended: the keys of the map are exactly the hashes that reply items
\* carried together with a non-empty URL; they are all input hashes when
\* every reply item carried a hash of the chunk that was requested.
C7_KeysAreAnsweredHashes ==
    /\ DOMAIN hashUrlMap = imgAnswered
    /\ \A h \in DOMAIN hashUrlMap : hashUrlMap[h] \in Urls
    /\ imgHonest => DOMAIN hashUrlMap \subseteq Range(hashList)

\* a returned map with a key that was not in the input
C7_Witness ==
    /\ imgPc = "returned"
    /\ hashList # <<>>
    /\ \E h \in DOMAIN hashUrlMap : h \notin Range(hashList)

\* C8 as stated: an item whose hash is already a key leaves the URL stored
\* for that hash unchanged.
C8_Original ==
    [][ (imgJ' = imgJ + 1 /\ imgLastItem'.hash \in DOMAIN hashUrlMap)
            => hashUrlMap'[imgLastItem'.hash]
                   = hashUrlMap[imgLastItem'.hash] ]_vars

\* C8 amended: an item with a hash and a URL is stored under its hash also
\* when the hash is already a key: the warning is printed and the item's
\* URL replaces the stored one; the other entries stay as they are, and an
\* item without hash or URL changes nothing.
C8_LaterItemOverwrites ==
    [][ imgJ' = imgJ + 1 =>
          IF imgLastItem'.hash # "" /\ imgLastItem'.url # ""
          THEN /\ DOMAIN hashUrlMap' = DOMAIN hashUrlMap \cup {imgLastItem'.hash}
               /\ hashUrlMap'[imgLastItem'.hash] = imgLastItem'.url
               /\ ImgWarned' <=> imgLastItem'.hash \in DOMAIN hashUrlMap
               /\ \A h \in DOMAIN hashUrlMap \ {imgLastItem'.hash} :
                      hashUrlMap'[h] = hashUrlMap[h]
          ELSE hashUrlMap' = hashUrlMap ]_vars

\* a hash stored with u1 by an earlier item has just been overwritten
C8_Witness ==
    /\ ImgWarned
    /\ imgPrevUrl = "u1"
    /\ imgLastItem.url = "u2"
    /\ hashUrlMap[imgLastItem.hash] = "u2"
    /\ Len(imgReqs) = 2

(***************************************************************************)
(* Claims about fetch_video_urls_with_backoff.                             *)
(***************************************************************************)
\* C9: at most max_retries lookup requests are issued for a video ID, and
\* none is issued for an ID that has been resolved, skipped for permission
\* denial or abandoned.
C9_AtMostMaxRetries ==
    /\ [](\A v \in VideoIds : vidReqCount[v] <= MaxRetries)
    /\ [][\A v \in VideoIds :
             vidFate[v] # "pending" => vidReqCount'[v] = vidReqCount[v]]_vars

\* the first ID was resolved on its third request, and the second ID has
\* been requested three times as well
C9_Witness ==
    /\ Len(videoIds) = 2
    /\ vidFate[videoIds[1]] = "resolved"
    /\ vidReqCount[videoIds[1]] = MaxRetries
    /\ vidReqCount[videoIds[2]] = MaxRetries
    /\ vidFate[videoIds[2]] = "abandoned"

\* C10 as stated: an ID whose every attempt returned HTTP 503 has been
\* attempted 3 times with delays of 1s, 2s and 4s and has no map entry.
C10_Original ==
    \A v \in VideoIds :
        (vidFate[v] # "pending" /\ vidOnly503[v]) =>
            /\ vidReqCount[v] = 3
            /\ vidDelays[v] = <<1, 2, 4>>
            /\ v \notin DOMAIN videoUrlMap

\* C10 amended: such an ID has been attempted exactly 3 times with delays
\* of 1s and 2s, one after each failed attempt but the last, and has no
\* map entry.
C10_Backoff503 ==
    \A v \in VideoIds :
        (vidFate[v] # "pending" /\ vidOnly503[v]) =>
            /\ vidReqCount[v] = 3
            /\ vidDelays[v] = <<1, 2>>
            /\ vidFate[v] = "abandoned"
            /\ v \notin DOMAIN videoUrlMap

\* the function returned after the second ID got 503 on every attempt
C10_Witness ==
    /\ vidPc = "returned"
    /\ Len(videoIds) = 2
    /\ vidOnly503[videoIds[2]]
    /\ vidReqCount[videoIds[2]] = 3
    /\ vidDelays[videoIds[2]] = <<1, 2>>
    /\ videoIds[2] \notin DOMAIN videoUrlMap
    /\ vidLastOut = "http"

\* a step that issues a lookup request
VidRequestStep == vidReqCount' # vidReqCount

\* C11: an HTTP 400 reply with error code 10 ends the attempts for the
\* video ID at once: no delay is slept, the ID gets no map entry, no request
\* for it follows, and the loop goes on with the next video ID.
C11_PermissionDeniedSkips ==
    [][ /\ (VidRequestStep /\ vidLastStatus' = 400 /\ vidLastBody' = "code10")
              => /\ vidFate'[Vid] = "skipped"
                 /\ vidDelays'[Vid] = vidDelays[Vid]
                 /\ Vid \notin DOMAIN videoUrlMap'
                 /\ vidIdx' = vidIdx + 1
                 /\ attempt' = 0
                 /\ vidPc' = IF vidIdx < Len(videoIds)
                             THEN "loop" ELSE "returned"
        /\ \A v \in VideoIds :
              vidFate[v] = "skipped" => vidReqCount'[v] = vidReqCount[v] ]_vars

\* the first ID was denied on its first request, and the second ID has
\* been resolved afterwards
C11_Witness ==
    /\ Len(videoIds) = 2
    /\ vidFate[videoIds[1]] = "skipped"
    /\ vidReqCount[videoIds[1]] = 1
    /\ vidDelays[videoIds[1]] = <<>>
    /\ videoIds[1] \notin DOMAIN videoUrlMap
    /\ vidFate[videoIds[2]] = "resolved"
    /\ vidPc = "returned"

\* C12: a successful reply without 'source' makes the same video ID be
\* requested again while attempts are left; at the last attempt the ID is
\* abandoned without map entry; a reply with 'source' resolves the ID at
\* whatever attempt it arrives.
C12_SoftMiss ==
    [][ /\ (VidRequestStep /\ vidLastOut' = "nosource")
              => IF attempt < MaxRetries - 1
                 THEN /\ vidIdx' = vidIdx
                      /\ attempt' = attempt + 1
                      /\ vidPc' = "loop"
                      /\ vidFate'[Vid] = "pending"
                      /\ vidDelays' = vidDelays
                 ELSE /\ vidFate'[Vid] = "abandoned"
                      /\ Vid \notin DOMAIN videoUrlMap'
                      /\ vidReqCount'[Vid] = MaxRetries
        /\ (VidRequestStep /\ vidLastOut' = "source")
              => /\ vidFate'[Vid] = "resolved"
                 /\ Vid \in DOMAIN videoUrlMap' ]_vars

\* the first ID was resolved by its second reply after one soft miss, the
\* second ID was abandoned after three soft misses
C12_Witness ==
    /\ Len(videoIds) = 2
    /\ vidFate[videoIds[1]] = "resolved"
    /\ vidReqCount[videoIds[1]] = 2
    /\ vidDelays[videoIds[1]] = <<>>
    /\ vidFate[videoIds[2]] = "abandoned"
    /\ vidReqCount[videoIds[2]] = MaxRetries
    /\ vidDelays[videoIds[2]] = <<>>
    /\ vidLastOut = "nosource"
    /\ videoIds[2] \notin DOMAIN videoUrlMap

\* C13: fetch_image_urls and fetch_video_urls_with_backoff never raise,
\* whatever the endpoint answers.
C13_NeverRaises == imgPc # "raised" /\ vidPc # "raised"

\* C14: a rate-limit reply (HTTP 429) does not make the listing loop give up
\* the page, nor fetch_video_urls_with_backoff give up the video ID while
\* attempts are left.
C14_RateLimitRetried ==
    [][ /\ (listLastUrl' # NoUrl /\ listLastStatus' = 429 /\ listPc = "loop")
              => listPc' = "loop"
        /\ (VidRequestStep /\ vidLastStatus' = 429 /\ attempt < MaxRetries - 1)
              => vidFate'[Vid] = "pending" ]_vars

(***************************************************************************)
(* Claims about download_media.                                            *)
(***************************************************************************)
DlFailures == {"mkdir", "timeout", "http", "open", "stream"}

\* C15: when a call of download_media has returned a path, the next call
\* with the same arguments issues no request and returns the same path: two
\* calls of which the first downloads the file perform one network download.
C15_SecondCallNoDownload ==
    [][ (dlCalls' = dlCalls + 1 /\ dlLast'.args = dlLast.args
           /\ dlLast.ret # NoPath)
            => (~dlLast'.requested /\ dlLast'.ret = dlLast.ret) ]_vars

\* the second of two calls with the same arguments found the file that the
\* first one downloaded
C15_Witness ==
    /\ dlCalls = 2
    /\ dlLast.out = "exists"
    /\ ~dlLast.requested
    /\ dlLast.ret = FilePath(dlLast.args)
    /\ ~dlLast.args.url.empty
    /\ \A p \in DlPaths :
           dlFiles[p] = IF p = dlLast.ret THEN "complete" ELSE "none"

\* C16: a failure inside download_media (timeout, HTTP error status, error
\* creating the directory, opening or writing the file) makes the call
\* return None; no call raises, so the caller can go on calling.
C16_FailureReturnsNone ==
    /\ dlPc # "raised"
    /\ dlLast.out \in DlFailures => dlLast.ret = NoPath
    /\ dlLast.out \in {"ok", "exists"} => dlLast.ret = FilePath(dlLast.args)

\* a call that failed while opening the file returned None after an
\* earlier call had failed while streaming
C16_Witness ==
    /\ dlLast.out = "open"
    /\ dlLast.ret = NoPath
    /\ dlPc = "ready"
    /\ dlCalls = 2
    /\ \E p \in DlPaths : dlFiles[p] = "partial"

(***************************************************************************)
(* Claims about the hierarchy builder.                                     *)
(***************************************************************************)
\* the records the for loop of line 547 has handled
Handled == SubSeq(hAds, 1, hIdx - 1)

\* the handled records of campaign c and adset a, in input order
HandledOf(c, a) ==
    LET Match(r) == r.camp = c /\ r.adset = a
    IN  SelectSeq(Handled, Match)

\* the first handled record that has both ids and campaign id c
FirstOfCampaign(c) ==
    LET n == CHOOSE n \in 1..(hIdx - 1) :
                 /\ hAds[n].camp = c /\ hAds[n].adset # NoId
                 /\ \A k \in 1..(n - 1) :
                        ~(hAds[k].camp = c /\ hAds[k].adset # NoId)
    IN  hAds[n]

\* C17: every handled record with both a campaign id and an adset id is
\* held exactly once, in the ads list of the adset node keyed by its own
\* (campaign id, adset id), the records of one adset standing in input
\* order; a record missing either id is in no adset; no campaign node and
\* no adset node is empty.
C17_HierarchyHoldsEachRecordOnce ==
    LET h == hierarchical_data
    IN  /\ \A i, j \in 1..Len(h) : h[i].id = h[j].id => i = j
        /\ \A i \in 1..Len(h) :
               /\ h[i].id # NoId
               /\ h[i].adsets # <<>>
               /\ \A k, l \in 1..Len(h[i].adsets) :
                      h[i].adsets[k].id = h[i].adsets[l].id => k = l
               /\ \A k \in 1..Len(h[i].adsets) :
                      /\ h[i].adsets[k].id # NoId
                      /\ h[i].adsets[k].ads # <<>>
                      /\ h[i].adsets[k].ads
                             = HandledOf(h[i].id, h[i].adsets[k].id)
        /\ \A n \in 1..(hIdx - 1) :
               (hAds[n].camp # NoId /\ hAds[n].adset # NoId)
                   => \E i \in 1..Len(h) :
                          /\ h[i].id = hAds[n].camp
                          /\ \E k \in 1..Len(h[i].adsets) :
                                 h[i].adsets[k].id = hAds[n].adset
        /\ hSkipped = Cardinality({n \in 1..(hIdx - 1) :
                          hAds[n].camp = NoId \/ hAds[n].adset = NoId})

\* three records were handled: one was skipped, the other two stand in
\* input order in one adset
C17_Witness ==
    /\ hPc = "built"
    /\ Len(hAds) = 3
    /\ hSkipped = 1
    /\ Len(hierarchical_data) = 1
    /\ Len(hierarchical_data[1].adsets) = 1
    /\ Len(hierarchical_data[1].adsets[1].ads) = 2
    /\ hierarchical_data[1].adsets[1].ads[1].id
           < hierarchical_data[1].adsets[1].ads[2].id

\* C18: the descriptive fields of a campaign node and of an adset node are
\* those of the first record that reached the node; a later record with the
\* same id and other descriptive values joins the ads list and changes no
\* descriptive field.
C18_FirstWriterWins ==
    LET h == hierarchical_data
    IN  \A i \in 1..Len(h) :
            /\ h[i].name = FirstOfCampaign(h[i].id).desc
            /\ \A k \in 1..Len(h[i].adsets) :
                   h[i].adsets[k].name
                       = Head(HandledOf(h[i].id, h[i].adsets[k].id)).desc

\* an adset holds two records whose descriptive values differ, and the
\* campaign node and the adset node carry those of the first
C18_Witness ==
    /\ hPc = "built"
    /\ Len(hierarchical_data) = 1
    /\ Len(hierarchical_data[1].adsets) = 1
    /\ Len(hierarchical_data[1].adsets[1].ads) = 2
    /\ hierarchical_data[1].adsets[1].ads[1].desc
           # hierarchical_data[1].adsets[1].ads[2].desc
    /\ hierarchical_data[1].name = hierarchical_data[1].adsets[1].ads[1].desc
    /\ hierarchical_data[1].adsets[1].name
           = hierarchical_data[1].adsets[1].ads[1].desc

(***************************************************************************)
(* Claims about the flattener.                                             *)
(***************************************************************************)
\* the fetched records that have both ids
Kept == {n \in 1..Len(hAds) : hAds[n].camp # NoId /\ hAds[n].adset # NoId}

\* the first kept record of the campaign, and of the adset, of record n
FirstInCampaign(n) ==
    CHOOSE k \in Kept :
        /\ hAds[k].camp = hAds[n].camp
        /\ \A l \in Kept : hAds[l].camp = hAds[n].camp => k <= l

FirstInAdset(n) ==
    CHOOSE k \in Kept :
        /\ hAds[k].camp = hAds[n].camp /\ hAds[k].adset = hAds[n].adset
        /\ \A l \in Kept :
               (hAds[l].camp = hAds[n].camp /\ hAds[l].adset = hAds[n].adset)
                   => k <= l

\* record m is visited before record n: campaigns and adsets in the order
\* of their first record, records in input order
Before(m, n) ==
    \/ FirstInCampaign(m) < FirstInCampaign(n)
    \/ /\ FirstInCampaign(m) = FirstInCampaign(n)
       /\ \/ FirstInAdset(m) < FirstInAdset(n)
          \/ FirstInAdset(m) = FirstInAdset(n) /\ m < n

\* C19: the flattener ends by writing a CSV that holds one row for every
\* record of the hierarchy, in campaign, adset, record order, so that the
\* rows and the skipped records add up to the fetched records.
C19_OneRowPerRecord ==
    /\ flatPc # "raised"
    /\ flatPc = "written" =>
           /\ {csv[i].ad_id : i \in 1..Len(csv)} = Kept
           /\ \A i, j \in 1..Len(csv) :
                  i < j => Before(csv[i].ad_id, csv[j].ad_id)
           /\ Len(csv) + hSkipped = Len(hAds)

\* C20: a numeric insight field that is absent or not a number comes out
\* as 0, and the statements that compute the numeric fields never raise.
C20_NonNumericIsZero ==
    /\ numPc # "raised"
    /\ numPc = "done" =>
           /\ \A f \in {"spend", "impressions", "clicks", "ctr", "cpc",
                          "cpm"} :
                  numIns[f] # "num" => numOut[f] = "0"
           /\ numIns.purchase_roas \notin {"num", "list_num"}
                  => numOut.roas = "0"
           /\ numIns.action_value # "num" => numOut.conversions = "0"

(***************************************************************************)
(* Claims about the run as a whole and about the delay between chunks.     *)
(***************************************************************************)
\* C21: a record whose flattening fails does not abort the others: when
\* the flattener has ended, the CSV holds a row for every record of the
\* hierarchy whose own numeric fields raise nothing.
C21_OtherAdsStillWritten ==
    flatPc \in {"written", "raised"} =>
        \A n \in Kept :
            ~Raises(hAds[n].ins) => \E i \in 1..Len(csv) : csv[i].ad_id = n

\* C27: every bulk chunk request of fetch_image_urls but the first is
\* issued after the iteration before it ended with the sleep of 0.2s.
C27_SleepBetweenChunks ==
    [][ (imgReqs' # imgReqs /\ imgReqs # <<>>) => imgSlept ]_vars

\* C30: a path returned by download_media names a file that holds the
\* complete payload of a download that finished without error.
C30_ReturnedFileIsComplete ==
    dlLast.ret # NoPath => dlFiles[dlLast.ret] = "complete"

(***************************************************************************)
(* Claims about the stages of a run.                                       *)
(***************************************************************************)
\* the place of a stage in the order fetching, collecting references,
\* resolving media, materializing, building the hierarchy, flattening
StageRank(st) ==
    CASE st = "fetching" -> 1
      [] st = "collecting" -> 2
      [] st = "resolving" -> 3
      [] st = "materializing" -> 4
      [] st = "hierarchy" -> 5
      [] st = "flattening" -> 6

\* every stage of the log was entered once, after the stages before it
InOrder(log) ==
    \A i, j \in 1..Len(log) : i < j => StageRank(log[i]) < StageRank(log[j])

\* C22 as stated: in both files the stages are entered in the fixed order
\* and none is entered a second time.
C22_Original == InOrder(runStages)

\* C22: in src/backup/get_data.py the stages are entered in the fixed
\* order and none a second time.  In src/get_data.py the references of a
\* page are collected before the next page is fetched, the images are
\* downloaded between the resolution of the hashes and that of the video
\* IDs, there is no hierarchy stage, and flattening comes last.
C22_StagesInOrder ==
    /\ runFile = "backup" => InOrder(runStages)
    /\ runFile = "main" =>
           /\ \A i \in 1..Len(runStages) :
                  /\ runStages[i] # "hierarchy"
                  /\ runStages[i] = "flattening" => i = Len(runStages)
                  /\ (runStages[i] = "fetching" /\ i < Len(runStages))
                         => runStages[i + 1] = "collecting"
                  /\ runStages[i] = "materializing" =>
                         /\ i > 1 /\ runStages[i - 1] = "resolving"
                         /\ i < Len(runStages)
                                => runStages[i + 1] = "resolving"

\* a run of src/backup/get_data.py over two records went through the six
\* stages and ended
C22_Witness ==
    /\ runFile = "backup"
    /\ runPc = "done"
    /\ Len(runAds) = 2
    /\ runStages = <<"fetching", "collecting", "resolving", "materializing",
                     "hierarchy", "flattening">>

\* C23: when a run of src/backup/get_data.py has ended, an upload was
\* attempted for every record whose image was downloaded.
C23_UploadAfterDownload ==
    (runFile = "backup" /\ runPc = "done") =>
        \A i \in 1..Len(runAds) :
            runAds[i].media = "local" => i \in runUploads

\* C24: while a credential is missing, no request was issued, no service
\* client was created and no output file was written, and the run is at
\* its start or has stopped.
C24_MissingCredentialStops ==
    ~(runCreds.token /\ runCreds.account) =>
        /\ ~runRequested
        /\ ~runClient
        /\ runFiles = {}
        /\ runPc \in {"startup", "stopped"}

\* the run stopped at startup for want of the account id
C24_Witness ==
    /\ runPc = "stopped"
    /\ runCreds.token
    /\ ~runCreds.account
    /\ runFile = "backup"
    /\ runStages = <<>>

\* the categories by priority, from which fields are non-empty
ByPriority(c) ==
    IF \E f \in VideoFields : c[f] = "set" THEN "Video/Reel"
    ELSE IF \E f \in CarouselFields : c[f] = "set" THEN "Carousel"
    ELSE IF \E f \in ImageFields : c[f] = "set" THEN "Static Image"
    ELSE "Unknown"

\* C25: determine_format_category returns 'Video/Reel' when a video field
\* is non-empty, otherwise 'Carousel' when the child attachments are,
\* otherwise 'Static Image' when an image field is, otherwise 'Unknown'.
C25_FormatPriority ==
    fmtPc = "done" => fmtOut = ByPriority(fmtCreative)

\* a creative with a video field, the child attachments and an image field
\* was classified as video
C25_Witness ==
    /\ fmtPc = "done"
    /\ fmtCreative["asset_feed_spec.videos"] = "set"
    /\ fmtCreative["object_story_spec.link_data.child_attachments"] = "set"
    /\ fmtCreative["image_hash"] = "set"
    /\ fmtOut = "Video/Reel"

\* C26: when a run of src/backup/get_data.py has ended, every record
\* carries a format_category among the four values, equal to
\* determine_format_category of its final creative.
C26_EveryRecordHasCategory ==
    (runFile = "backup" /\ runPc = "done") =>
        \A i \in 1..Len(runAds) :
            /\ runAds[i].format_category \in Categories
            /\ runAds[i].format_category
                   = determine_format_category(FinalCreative(runAds[i]))

\* C28: the collector yields exactly the non-empty image hashes found at
\* the primary field, in the child attachments and in photo_data, and
\* exactly the non-empty video IDs of the asset feed and of video_data.
C28_CollectsExactlyTheReferences ==
    colPc = "done" =>
        /\ hashes =
               {h \in {"h1", "h2"} :
                   \E i \in 1..Len(colAds) :
                       \/ colAds[i].image_hash = h
                       \/ h \in Range(colAds[i].children)
                       \/ colAds[i].photo = h}
        /\ video_ids =
               {v \in {"v1"} :
                   \E i \in 1..Len(colAds) :
                       \/ v \in Range(colAds[i].videos)
                       \/ colAds[i].story_video = v}

\* C29: when the chain of next links is finite and no page request fails
\* for ever with a 5xx reply or a network exception, the listing loop of
\* get_data_script ends.
C29_ListingTerminates == <>(listPc # "loop")

\* the loop ended at the end of a chain of several pages after a request
\* had been retried
C29_Witness ==
    /\ listPc = "exited"
    /\ url = NoUrl
    /\ Len(chain) > 1
    /\ page = Len(chain) + 1
    /\ listRetried

(***************************************************************************)
(* Claims about the per-ad fetches.                                        *)
(***************************************************************************)
\* C31: the creative fetch and the insights fetch issue at most 3 requests
\* per ad and none for an ad after a request for it returned without
\* raising a request exception; once the loop is over, an ad whose 3
\* requests all raised has no creative (no insights) and no entry in
\* all_creatives (all_insights), and every ad with an id was requested.
C31_AtMostThreeRequestsPerAd ==
    /\ [](\A i \in 1..Len(afReqs) : afReqs[i] <= 3)
    /\ [][ \A i \in 1..Len(afReqs) :
               afReqs'[i] # afReqs[i] => i \notin afSettled ]_vars
    /\ [](afPc = "done" =>
             \A i \in 1..Len(afReqs) :
                 /\ afHasId[i] => afReqs[i] >= 1
                 /\ (afReqs[i] = 3 /\ i \notin afSettled)
                        => (i \notin afEntry /\ i \notin afField))

\* the loop is over: the three requests of the first ad all raised and the
\* second ad was fetched
C31_Witness ==
    /\ afPc = "done"
    /\ Len(afReqs) = 2
    /\ afReqs[1] = 3
    /\ 1 \notin afSettled
    /\ 1 \notin afEntry
    /\ 2 \in afField

\* C32: in a run of src/get_data.py every page of the listing is requested
\* once; a page request that fails ends the run with an exception, and no
\* output file has been written then, whatever pages were fetched before.
C32_MainNeverRetriesAPage ==
    runFile = "main" =>
        /\ runListReqs <= Len(runAds) + 1
        /\ runListReqs = Len(runAds) + 1 =>
               (runPc = "raised" /\ runFiles = {})

\* the request of the second page of a run of src/get_data.py failed: the
\* run raised with the record of the first page in memory and no file
C32_Witness ==
    /\ runFile = "main"
    /\ Len(runAds) = 1
    /\ runListReqs = 2
    /\ runPc = "raised"
    /\ runFiles = {}

(***************************************************************************)
(* Claims about generate_caption.                                          *)
(***************************************************************************)
\* C33: generate_caption called with retries = r makes at most r + 1
\* captioning calls and none after a call that succeeded; it returns the
\* empty string when no call succeeded, never raises, and makes no call
\* when captioning is disabled or the image reference is empty.
C33_AtMostRPlusOneCalls ==
    /\ [](capCalls <= capR + 1)
    /\ [][capSucceeded => capCalls' = capCalls]_vars
    /\ []((capPc = "returned" /\ ~capSucceeded) => capRet = NoCaption)
    /\ [](capPc # "raised")
    /\ []((~capEnabled \/ capRef = "") => capCalls = 0)

\* with the default retries = 2 three calls were made, all failed, and the
\* empty string was returned
C33_Witness ==
    /\ capPc = "returned"
    /\ capR = 2
    /\ capCalls = 3
    /\ ~capSucceeded
    /\ capRet = NoCaption

(***************************************************************************)
(* Claims about the embed-and-upsert loop.                                 *)
(***************************************************************************)
\* C34: the batches are consecutive slices of at most BATCH_SIZE documents
\* taken in order; when the loop is over every document belongs to exactly
\* one batch, whether or not an earlier batch failed; the documents
\* upserted are those of the batches that did not fail, and the number
\* reported is len(documents), which is at least their number.
C34_BatchesCoverDocuments ==
    /\ \A k \in 1..Len(batBatches) :
           /\ batBatches[k].first = (IF k = 1 THEN 1
                                     ELSE batBatches[k - 1].last + 1)
           /\ batBatches[k].first <= batBatches[k].last
           /\ batBatches[k].last - batBatches[k].first + 1 <= BATCH_SIZE
           /\ batBatches[k].last <= documents
    /\ batUpserted =
           {d \in 1..documents :
               \E k \in 1..Len(batBatches) :
                   /\ batBatches[k].ok
                   /\ d \in batBatches[k].first..batBatches[k].last}
    /\ batPc = "done" =>
           /\ \A d \in 1..documents :
                  Cardinality({k \in 1..Len(batBatches) :
                      d \in batBatches[k].first..batBatches[k].last}) = 1
           /\ batReported = documents
           /\ Cardinality(batUpserted) <= batReported

\* the loop is over: the first of three batches failed, the two after it
\* were upserted, and fewer vectors were upserted than are reported
C34_Witness ==
    /\ batPc = "done"
    /\ Len(batBatches) = 3
    /\ ~batBatches[1].ok
    /\ batBatches[2].ok
    /\ batBatches[3].ok
    /\ Cardinality(batUpserted) < batReported

(***************************************************************************)
(* Claims about the metadata filters.                                      *)
(***************************************************************************)
\* C35: build_metadata_filters never raises, so that VectorDB.query with
\* filters = None runs, and for a dict returned by render_filters every
\* non-empty selection whose key names a filter field is in the filter
\* returned, with its value.
C35_SelectionsBecomeFilters ==
    /\ filtPc # "raised"
    /\ (filtPc = "done" /\ selected_filters \in RenderedDicts) =>
           \A key \in RenderKeys \cap FilterFields :
               selected_filters[key] # "" =>
                   filters[key] = selected_filters[key]

(***************************************************************************)
(* Claims about the password gate.                                         *)
(***************************************************************************)
\* C36: a script run calls streamlitUi.main() only with password_correct
\* True; password_correct is True only after an entry equal to the
\* configured APP_PASSWORD; as long as no such entry was made, no script
\* run has called main().
C36_MainOnlyAfterRightPassword ==
    /\ appMain => password_correct = "True"
    /\ password_correct = "True" => appRight
    /\ ~appRight => ~appMainEver

\* two wrong entries and the reruns after them: the error is shown and
\* main() was never called
C36_Witness ==
    /\ appSecret = "open"
    /\ appEntries >= 2
    /\ appRuns >= 3
    /\ ~appRight
    /\ password_correct = "False"
    /\ appError
    /\ ~appMainEver

\* C37: once password_correct is True it stays True; every script run from
\* then on calls main() without rendering the password input, and the
\* entered password is not in session state.
C37_StaysAuthenticated ==
    /\ [][password_correct = "True" => password_correct' = "True"]_vars
    /\ [](password_correct = "True" =>
              /\ appMain
              /\ ~appPrompt
              /\ password = NoKey)

\* the right password was the only entry and the script has run three
\* more times since
C37_Witness ==
    /\ password_correct = "True"
    /\ appSecret = "open"
    /\ appEntries = 1
    /\ appRuns = 5
    /\ appMain
    /\ password = NoKey
====
